---- MODULE Spec2Model ----
(***************************************************************************)
(* mov3 video automation engine: the job pipeline of                       *)
(* src/src/core/engine.py (VideoEngine.process_audio_file, _validate_inputs,*)
(* _process_clip, batch_process) together with the parts of the            *)
(* collaborators it drives: the asset pool and cursor of                   *)
(* src/src/media/selector.py, the clip-count estimate of                   *)
(* src/src/core/planner.py and the success/failure boundary of             *)
(* src/src/ffmpeg/orchestrator.py.                                         *)
(*                                                                         *)
(* Times are in tenths of a second.  A job is one call of                  *)
(* process_audio_file; pc is the place the call has reached.               *)
(***************************************************************************)
EXTENDS Integers, Sequences, FiniteSets, TLC

\* ---------------------------------------------------------------- bounds
\* Largest number of clips a plan has in the model.
MaxClips == 3
\* Largest number of files in a per-track asset folder.
MaxFiles == 3
\* Largest number of audio files batch_process finds.
MaxBatch == 2
\* select_next calls made on one MediaSelector between resets
MaxSelects == 3

\* ------------------------------------------------------ program constants
\* Config.min_media_files default.
min_media_files == 3
\* Config.min_clip_duration, max_clip_duration, overlap_duration defaults,
\* in tenths of a second (2.0 s, 5.0 s, 0.5 s).
min_clip_duration == 20
max_clip_duration == 50
overlap_duration == 5

\* JobStatus (engine.py 20-29).
JobStatus ==
  {"PENDING", "VALIDATING", "PLANNING", "PROCESSING", "FINALIZING",
   "COMPLETED", "FAILED", "CANCELLED"}

Terminal == {"COMPLETED", "FAILED", "CANCELLED"}

\* MediaType (selector.py 16-19); "other" is a file whose extension is in
\* neither image_formats nor video_formats.
FileKinds == {"image", "video", "other"}

\* The messages the pipeline writes.
MsgAudioNotFound == "Audio file not found"
MsgFolderNotFound == "Media folder not found"
MsgNoMediaFiles == "No media files found"
MsgShortage == "Warning: Only N media file(s) found"
MsgShortagePrompt == "Warning: Only N media file(s) found. Do you want to continue?"
MsgCancelled == "User cancelled due to validation warning"
MsgNoDuration == "Could not determine audio duration"
MsgNoClips == "No clips were successfully processed"
MsgConcatFailed == "Failed to concatenate clips"
MsgMinGtMax == "min_clip cannot be greater than max_clip"
MsgNoMediaAvailable == "No media files available"

\* str(e) of an exception raised by a caller-supplied callback: the text is
\* the callback's choice, and it is empty for an exception raised without
\* arguments (a failed assert, EOFError()).
CallbackExcMessages == {"", "callback error"}

\* The clip settings a job may run with: the defaults of Config and an
\* override (--min-duration 5 --max-duration 2) with min above max.
ClipSettings ==
  { [min_clip |-> min_clip_duration, max_clip |-> max_clip_duration,
     overlap |-> overlap_duration],
    [min_clip |-> max_clip_duration, max_clip |-> min_clip_duration,
     overlap |-> overlap_duration] }

\* Config as the job reads it, with the two optional callbacks.
Configs ==
  [ warn_insufficient_media : BOOLEAN,
    prompt_on_shortage : BOOLEAN,
    anti_consecutive : BOOLEAN,
    selection_mode : {"sequential", "random"},
    clips : ClipSettings,
    has_progress_callback : BOOLEAN,
    has_confirm_callback : BOOLEAN ]

VARIABLES
  config,            \* the engine's Config and the callbacks given
  pc,                \* where process_audio_file is
  result,            \* the JobResult under construction
  exc,               \* the exception in flight to the top-level handler
  clock,             \* what time.time() returns next
  env,               \* what _validate_inputs found on disk
  validation_result, \* the dict _validate_inputs returned
  audio_info,        \* the dict get_media_info returned
  clip_plans,        \* len(clip_plans); 0 before planning
  clip_i,            \* the loop index i of the clip loop
  clip_files,        \* indexes of the clips whose temp file was appended
  clip_log,          \* per clip attempted: "ok", "encode_failed", "raised"
  clip_calls,        \* per clip attempted: what _process_clip passed on
  selector,          \* the MediaSelector of the job
  calls,             \* how often each collaborator was called in this job
  confirm_answer,    \* what the confirmation callback answered
  concat_result,     \* what concatenate_clips returned
  ffmpeg,            \* the transcoder: how its subprocesses fail, and how
                     \* the probe and the concatenation of this job ended
  bpc,               \* where batch_process is
  audio_files,       \* number of audio files batch_process found
  batch_i,           \* index of the file batch_process works on
  results,           \* the list batch_process returns
  summary,           \* the counts batch_process logs
  ppc,               \* where the DurationPlanner under call is
  planner,           \* the fields of the DurationPlanner and its num_clips
  durations,         \* the list `durations` of _plan_multiple_clips
  plans,             \* the list of ClipPlan that plan_clips returns
  spc,               \* where the MediaSelector under call is
  used_segments,     \* per file of the pool, its list used_segments
  selection,         \* the MediaSelection the caller got from select_next
  returned,          \* per file of the pool, how often select_next returned
                     \* it since construction or the last reset
  retry              \* the locals of the random branch of select_next

jobvars ==
  << pc, result, exc, clock, env, validation_result, audio_info, clip_plans,
     clip_i, clip_files, clip_log, clip_calls, selector, calls,
     confirm_answer, concat_result, ffmpeg >>

batchvars == << bpc, audio_files, batch_i, results, summary >>

plannervars == << ppc, planner, durations, plans >>

selectorvars == << spc, used_segments, selection, returned, retry >>

libvars == << plannervars, selectorvars >>

vars == << config, jobvars, batchvars, libvars >>

\* ------------------------------------------------------------- JobResult
\* JobResult(audio_file, output_file="", status=PENDING, start_time=t)
\* (engine.py 32-50, 135-140).
NewJobResult(t) ==
  [ status |-> "PENDING", duration |-> 0, clips_processed |-> 0,
    error_message |-> "", warnings |-> << >>, metrics |-> FALSE,
    output_file |-> FALSE, start_time |-> t, end_time |-> 0 ]

CallNames ==
  {"validate", "confirm", "probe", "selector", "planner", "select_next",
   "encode_image", "encode_video", "concatenate", "cleanup", "statistics"}

NoCalls == [c \in CallNames |-> 0]

Called(c) == calls' = [calls EXCEPT ![c] = @ + 1]

NoEnv == [read |-> FALSE, audio_exists |-> FALSE, folder_exists |-> FALSE,
          files |-> << >>]

NoValidation == [valid |-> TRUE, message |-> "", prompt_user |-> FALSE,
                 warnings |-> << >>]

NoInfo == [has_duration |-> FALSE, duration |-> 0]

NoSelector == [built |-> FALSE, media_files |-> << >>, current_index |-> 0,
               last_selected |-> 0, reuse_count |-> << >>]

\* The exception in flight: its class and str(e).  Every exception of the
\* model is an instance of Exception.
\* No MediaSelection was returned yet.
NoSelection ==
  [ file |-> 0, duration |-> 0, avoided |-> FALSE, has_segment |-> FALSE,
    start_time |-> 0, end_time |-> 0, variation |-> FALSE ]

\* select_next is not in its random branch.
NoRetry ==
  [ avoid_file |-> 0, attempts |-> 0, draws |-> 0, first_other |-> 0,
    selected_file |-> 0 ]

\* No DurationPlanner under call.
NoPlanner == [audio_duration |-> 0, min_clip |-> 0, max_clip |-> 0,
              overlap |-> 0, num_clips |-> 0]

NoExc == [raised |-> FALSE, class |-> "none", message |-> ""]

Raised(c, m) == [raised |-> TRUE, class |-> c, message |-> m]

\* --------------------------------------------------------- _report_progress
\* _report_progress (engine.py 109-113): logs, then calls the progress
\* callback if one was given; the callback is caller code and may raise.
\* Control goes to `next`, or to the handler of process_audio_file.
ReportProgress(next) ==
  \/ /\ pc' = next
     /\ exc' = exc
  \/ /\ config.has_progress_callback
     /\ \E m \in CallbackExcMessages : exc' = Raised("RuntimeError", m)
     /\ pc' = "except"

\* ---------------------------------------------------------- _validate_inputs
\* The variant without the empty-folder check.
ValidateInputsNoEmptyCheck(cfg, audio_exists, folder_exists, media_count) ==
  IF ~audio_exists
    THEN [valid |-> FALSE, message |-> MsgAudioNotFound,
          prompt_user |-> FALSE, warnings |-> << >>]
  ELSE IF ~folder_exists
    THEN [valid |-> FALSE, message |-> MsgFolderNotFound,
          prompt_user |-> FALSE, warnings |-> << >>]
  ELSE IF cfg.warn_insufficient_media /\ media_count < min_media_files
    THEN IF cfg.prompt_on_shortage
           THEN [valid |-> FALSE, message |-> MsgShortagePrompt,
                 prompt_user |-> TRUE, warnings |-> << MsgShortage >>]
           ELSE [valid |-> TRUE, message |-> "",
                 prompt_user |-> FALSE, warnings |-> << MsgShortage >>]
  ELSE [valid |-> TRUE, message |-> "", prompt_user |-> FALSE,
        warnings |-> << >>]

\* The variant that raises the prompt even when prompting is disabled.
ValidateInputsAlwaysPrompt(cfg, audio_exists, folder_exists, media_count) ==
  IF ~audio_exists
    THEN [valid |-> FALSE, message |-> MsgAudioNotFound,
          prompt_user |-> FALSE, warnings |-> << >>]
  ELSE IF ~folder_exists
    THEN [valid |-> FALSE, message |-> MsgFolderNotFound,
          prompt_user |-> FALSE, warnings |-> << >>]
  ELSE IF media_count = 0
    THEN [valid |-> FALSE, message |-> MsgNoMediaFiles,
          prompt_user |-> FALSE, warnings |-> << >>]
  ELSE IF cfg.warn_insufficient_media /\ media_count < min_media_files
    THEN [valid |-> FALSE, message |-> MsgShortagePrompt,
          prompt_user |-> TRUE, warnings |-> << MsgShortage >>]
  ELSE [valid |-> TRUE, message |-> "", prompt_user |-> FALSE,
        warnings |-> << >>]

\* _validate_inputs (engine.py 309-364): the dict it returns.
ValidateInputs(cfg, audio_exists, folder_exists, media_count) ==
  IF ~audio_exists
    THEN [valid |-> FALSE, message |-> MsgAudioNotFound,
          prompt_user |-> FALSE, warnings |-> << >>]
  ELSE IF ~folder_exists
    THEN [valid |-> FALSE, message |-> MsgFolderNotFound,
          prompt_user |-> FALSE, warnings |-> << >>]
  ELSE IF media_count = 0
    THEN [valid |-> FALSE, message |-> MsgNoMediaFiles,
          prompt_user |-> FALSE, warnings |-> << >>]
  ELSE IF cfg.warn_insufficient_media /\ media_count < min_media_files
    THEN IF cfg.prompt_on_shortage
           THEN [valid |-> FALSE, message |-> MsgShortagePrompt,
                 prompt_user |-> TRUE, warnings |-> << MsgShortage >>]
           ELSE [valid |-> TRUE, message |-> "",
                 prompt_user |-> FALSE, warnings |-> << MsgShortage >>]
  ELSE [valid |-> TRUE, message |-> "", prompt_user |-> FALSE,
        warnings |-> << >>]

\* The asset folders of the model: the kinds of the files of the folder in
\* sorted-name order (_load_media scans sorted(iterdir())), for folders whose
\* file names sort by kind ("image..." < "other..." < "video...").
KindRank(k) == CASE k = "image" -> 0 [] k = "other" -> 1 [] k = "video" -> 2

Folders ==
  { f \in UNION { [1..k -> FileKinds] : k \in 0..MaxFiles } :
      \A i \in 1..(Len(f) - 1) : KindRank(f[i]) <= KindRank(f[i + 1]) }

\* ------------------------------------------------------------ get_media_info
\* What get_media_info can return for the audio file (orchestrator.py
\* 159-219): {} when ffprobe is missing, exits non-zero, times out or its
\* output cannot be parsed, else a dict with the duration ffprobe reported.
ClipSpan == (min_clip_duration + max_clip_duration) \div 2 - overlap_duration

AudioDurations == {0} \cup { overlap_duration + k * ClipSpan : k \in 1..MaxClips }

MediaInfos ==
  {NoInfo} \cup { [has_duration |-> TRUE, duration |-> d] : d \in AudioDurations }

\* The variant whose default is a usable duration.
GetDurationDefaultOne(info) ==
  IF info.has_duration THEN info.duration ELSE overlap_duration + ClipSpan

\* audio_info.get('duration', 0) (engine.py 178).
GetDuration(info) == IF info.has_duration THEN info.duration ELSE 0

\* --------------------------------------------------------- FFmpegOrchestrator
\* How a subprocess of the transcoder fails: it exits with a non-zero code,
\* or it is still running at the timeout given to subprocess.run, which
\* then raises TimeoutExpired.
FailureModes == {"nonzero", "timeout"}

\* How a subprocess.run of a transcoder ends when it fails by `failure`.
RunOutcomes(failure) == {"ok", failure}

MsgTimedOut == "Command timed out"

\* The transcoder of an engine, with no subprocess run yet for the job.
NewTranscoder(failure) ==
  [failure |-> failure, probe_run |-> "none", concat_run |-> "none"]

\* The same transcoder at the start of the next job.
NewJobRuns(t) == NewTranscoder(t.failure)

\* get_media_info without its handler: TimeoutExpired leaves the call.
GetMediaInfoTimeoutEscapes(run, reported) ==
  [raised |-> run = "timeout",
   info |-> IF run = "ok" THEN reported ELSE NoInfo]

\* get_media_info (orchestrator.py 159-219) for a subprocess that ended
\* `run` and, if it ran to its end, printed `reported`: a non-zero exit
\* gives {}, and so does whatever the try block raises.
GetMediaInfo(run, reported) ==
  [raised |-> FALSE, info |-> IF run = "ok" THEN reported ELSE NoInfo]

\* encode_image_clip (orchestrator.py 262-314) and encode_video_clip
\* (orchestrator.py 386-401): False for a non-zero exit and for whatever
\* the try block raises.
EncodeClip(run) == [raised |-> FALSE, success |-> run = "ok"]

\* concatenate_clips (orchestrator.py 425-442) over _simple_concat
\* (orchestrator.py 451-486) and _simple_concat_multiple (orchestrator.py
\* 495-539): False for a non-zero exit and for whatever a try block raises.
ConcatenateClips(run) == [raised |-> FALSE, success |-> run = "ok"]

\* ------------------------------------------------------------ DurationPlanner
Max(a, b) == IF a >= b THEN a ELSE b

\* int(a / b) for b > 0: Python truncates toward zero.
TruncDiv(a, b) == IF a >= 0 THEN a \div b ELSE -((-a) \div b)

\* DurationPlanner.__init__ raises ValueError (planner.py 59-61).
PlannerRejects(c) == c.min_clip > c.max_clip

\* An estimate that leaves the overlap out: audio_duration / avg_duration.
EstimateClipCountNoOverlap(c, audio_duration) ==
  Max(1, TruncDiv(2 * audio_duration, c.min_clip + c.max_clip))

\* _estimate_clip_count (planner.py 91-117), and so len(plan_clips())
\* (planner.py 72-89): one plan from _plan_single_clip, num_clips plans from
\* _plan_multiple_clips.  avg_duration is (min_clip + max_clip) / 2; both
\* sides of each comparison and quotient are doubled to stay in integers.
EstimateClipCount(c, audio_duration) ==
  IF c.min_clip + c.max_clip <= 2 * c.overlap
    THEN Max(1, TruncDiv(audio_duration, c.min_clip))
    ELSE Max(1, TruncDiv(2 * (audio_duration - c.overlap),
                         c.min_clip + c.max_clip - 2 * c.overlap))

\* The arithmetic of plan_clips.
\* plan_clips computes in floats.  The model computes in steps of
\* 1/Resolution of a tenth of a second and truncates a quotient to a step,
\* which is far coarser than a float and far finer than the 0.01 s the
\* planner compares against.
Resolution == 1000

\* soft_budget_tolerance, in percent.
soft_budget_tolerance == 25

\* 0.01 s (planner.py 187, 194).
ErrorThreshold == Resolution \div 10

Min(a, b) == IF a <= b THEN a ELSE b

Abs(a) == IF a >= 0 THEN a ELSE -a

RECURSIVE SumSeq(_)
SumSeq(s) == IF s = << >> THEN 0 ELSE s[1] + SumSeq(Tail(s))

\* No clamping at all.
NoClamp(x, lo, hi) == x

\* max(self.min_clip, min(self.max_clip, x)) (planner.py 197, 253, 254, 280).
Clamp(x, lo, hi) == Max(lo, Min(hi, x))

\* The planners called: the default clip settings, min above max, min equal
\* to max, min zero with the overlap at the average, and an overlap above
\* max (where the sampling range falls back to [min_clip, max_clip]); over
\* audio durations that give one clip, several clips, and several clips
\* with a remainder.  Tenths of a second.
PlannerClipSettings ==
  ClipSettings \cup
  { [min_clip |-> 30, max_clip |-> 30, overlap |-> overlap_duration],
    [min_clip |-> 0, max_clip |-> 2 * overlap_duration,
     overlap |-> overlap_duration],
    [min_clip |-> 10, max_clip |-> 30, overlap |-> 70] }

PlannerAudioDurations ==
  {0, 10, 20, 79, 120, 124} \cup
  { overlap_duration + k * ClipSpan + 4 : k \in 1..MaxClips }

NewPlanner(a, c) ==
  [ audio_duration |-> a * Resolution, min_clip |-> c.min_clip * Resolution,
    max_clip |-> c.max_clip * Resolution, overlap |-> c.overlap * Resolution,
    num_clips |-> 0 ]

\* The planners of the model: those that fail, and those whose plan has at
\* most MaxClips + 1 clips.
PlannerInputs ==
  { p \in { NewPlanner(a, c) : a \in PlannerAudioDurations,
                               c \in PlannerClipSettings } :
      \/ PlannerRejects(p)
      \/ p.min_clip = 0
      \/ EstimateClipCount(p, p.audio_duration) <= MaxClips + 1 }

\* _estimate_clip_count divides by min_clip when avg_duration <= overlap
\* (planner.py 111-114): ZeroDivisionError for min_clip = 0.
EstimateRaises(p) ==
  /\ p.min_clip + p.max_clip <= 2 * p.overlap
  /\ p.min_clip = 0

\* The single clip without the clamp.
SingleClipDurationUnclamped(p) == p.audio_duration

\* _plan_single_clip (planner.py 126-134).
SingleClipDuration(p) ==
  IF p.audio_duration < p.min_clip THEN p.min_clip
  ELSE IF p.audio_duration > p.max_clip THEN p.max_clip
  ELSE p.audio_duration

\* target_sum and target_avg (planner.py 155-156).
TargetSum(p) == p.audio_duration + (p.num_clips - 1) * p.overlap

TargetAvg(p) == TargetSum(p) \div p.num_clips

\* The range a duration is drawn from (planner.py 164-170).
DrawRange(p) ==
  LET min_d == Max(p.min_clip,
                   (TargetAvg(p) * (100 - soft_budget_tolerance)) \div 100)
      max_d == Min(p.max_clip,
                   (TargetAvg(p) * (100 + soft_budget_tolerance)) \div 100)
  IN  IF min_d > max_d THEN [lo |-> p.min_clip, hi |-> p.max_clip]
                       ELSE [lo |-> min_d, hi |-> max_d]

\* random.uniform(lo, hi): the ends of the range and its middle stand for
\* every value in it.
UniformDraws(lo, hi) == {lo, hi, (lo + hi) \div 2}

\* A pass that moves only the first clip of a pair towards the second.
RECURSIVE SmoothFromOneSided(_, _, _)
SmoothFromOneSided(p, s, i) ==
  IF i >= Len(s) THEN s
  ELSE IF 4 * Abs(s[i] - s[i + 1]) > s[i] + s[i + 1]
         THEN SmoothFromOneSided(p,
                [s EXCEPT ![i] = Clamp((7 * s[i] + 3 * s[i + 1]) \div 10,
                                       p.min_clip, p.max_clip)],
                i + 1)
         ELSE SmoothFromOneSided(p, s, i + 1)

\* _apply_soft_budgeting (planner.py 223-256) from pair i on; diff > avg *
\* 0.5 with avg = (current + next) / 2 is 4 * diff > current + next.
RECURSIVE SmoothFrom(_, _, _)
SmoothFrom(p, s, i) ==
  IF i >= Len(s) THEN s
  ELSE LET current == s[i]
           next_clip == s[i + 1]
           diff == Abs(current - next_clip)
       IN  IF 4 * diff > current + next_clip
             THEN SmoothFrom(p,
                    [s EXCEPT
                       ![i] = Clamp((7 * current + 3 * next_clip) \div 10,
                                    p.min_clip, p.max_clip),
                       ![i + 1] = Clamp((3 * current + 7 * next_clip) \div 10,
                                        p.min_clip, p.max_clip)],
                    i + 1)
             ELSE SmoothFrom(p, s, i + 1)

ApplySoftBudgeting(p, s) == IF Len(s) <= 1 THEN s ELSE SmoothFrom(p, s, 1)

\* sum(durations) - (num_clips - 1) * overlap (planner.py 181, 191).
EffectiveTotal(p, s) == SumSeq(s) - (Len(s) - 1) * p.overlap

\* _absorb_error (planner.py 258-283).
AbsorbError(p, s, error) ==
  IF Len(s) = 0 THEN s
  ELSE LET adjustment_per_clip ==
             IF error >= 0 THEN error \div Len(s) ELSE -((-error) \div Len(s))
       IN  [i \in 1..Len(s) |->
              Clamp(s[i] + adjustment_per_clip, p.min_clip, p.max_clip)]

\* The start time of clip i of the plan (planner.py 201, 213); i from 1.
RECURSIVE StartTime(_, _, _)
StartTime(p, s, i) ==
  IF i = 1 THEN 0 ELSE StartTime(p, s, i - 1) + s[i - 1] - p.overlap

\* A timeline that puts each clip at the end of the one before it.
ClipPlansBackToBack(p, s) ==
  [i \in 1..Len(s) |->
     [index |-> i - 1, duration |-> s[i],
      start_time |-> SumSeq(SubSeq(s, 1, i - 1)),
      end_time |-> SumSeq(SubSeq(s, 1, i))]]

\* ClipPlan objects with timing (planner.py 199-213).
ClipPlans(p, s) ==
  [i \in 1..Len(s) |->
     [index |-> i - 1, duration |-> s[i], start_time |-> StartTime(p, s, i),
      end_time |-> StartTime(p, s, i) + s[i]]]

\* The absorption stage of _plan_multiple_clips (planner.py 180-188).
AbsorbStage(p, s) ==
  LET error == p.audio_duration - EffectiveTotal(p, s)
  IN  IF Abs(error) > ErrorThreshold THEN AbsorbError(p, s, error) ELSE s

\* A plan that is left as the absorption stage made it.
ResidualStageSkipped(p, s) == s

\* The residual correction of _plan_multiple_clips (planner.py 190-197):
\* the residual goes to the last clip, which is clamped.
ResidualStage(p, s) ==
  LET final_error == p.audio_duration - EffectiveTotal(p, s)
      last == Len(s)
  IN  IF Abs(final_error) > ErrorThreshold
        THEN [s EXCEPT ![last] = Clamp(@ + final_error, p.min_clip, p.max_clip)]
        ELSE s

\* The durations _plan_multiple_clips ends with for the drawn durations
\* (planner.py 175-197).
PlanMultipleClips(p, drawn) ==
  ResidualStage(p, AbsorbStage(p, ApplySoftBudgeting(p, drawn)))

\* ------------------------------------------------------------- MediaSelector
\* A scan that takes every file of the folder.
SupportedAnyFile(kind) == TRUE

\* The extension of the file is in image_formats or video_formats
\* (selector.py 121-129).
Supported(kind) == kind \in {"image", "video"}

Perms(n) == { f \in [1..n -> 1..n] : \A i, j \in 1..n : f[i] = f[j] => i = j }

\* random.shuffle(self.media_files): any order of the same files.
Shuffles(s) == { [i \in 1..Len(s) |-> s[f[i]]] : f \in Perms(Len(s)) }

\* _load_media (selector.py 103-139): the pools the scan of `files` can give.
LoadMedia(files, mode) ==
  LET found == SelectSeq(files, Supported)
  IN  IF mode = "random" THEN Shuffles(found) ELSE {found}

\* MediaSelector.__init__ (selector.py 84-101) over pool `media`.
NewSelector(media) ==
  [ built |-> TRUE, media_files |-> media, current_index |-> 0,
    last_selected |-> 0, reuse_count |-> [i \in 1..Len(media) |-> 0] ]

\* A scan that takes the file at the cursor whatever avoid_file is.
SequentialScanNoSkip(n, cur, anti, avoid, attempts) ==
  [file |-> cur + 1, current_index |-> (cur + 1) % n]

\* The sequential scan of select_next (selector.py 211-230): files are named
\* by their position in media_files (1-based), the cursor is 0-based, avoid
\* is 0 for None.  Gives the file chosen and the cursor after the call.
RECURSIVE SequentialScan(_, _, _, _, _)
SequentialScan(n, cur, anti, avoid, attempts) ==
  IF attempts < n
    THEN IF anti /\ avoid # 0 /\ cur + 1 = avoid
           THEN SequentialScan(n, (cur + 1) % n, anti, avoid, attempts + 1)
           ELSE [file |-> cur + 1, current_index |-> (cur + 1) % n]
    ELSE [file |-> cur + 1, current_index |-> (cur + 1) % n]

\* Draws that never give up avoiding avoid_file.
RandomChoicesStrict(n, anti, avoid) ==
  { c \in 1..n : ~(anti /\ avoid # 0 /\ c = avoid) }

\* The random branch of select_next (selector.py 232-252): a draw that
\* equals avoid is retried; a draw that does not is taken; when every one of
\* the max_attempts draws equals avoid the fallback draw is taken whatever
\* it is.
RandomChoices(n, anti, avoid) ==
  IF n = 1 THEN {1}
  ELSE { c \in 1..n : ~(anti /\ avoid # 0 /\ c = avoid) }
       \cup (IF anti /\ avoid \in 1..n THEN 1..n ELSE {})

\* select_next without the reuse bookkeeping of selector.py 255.
SelectNextUncounted(sel, mode, anti, avoid) ==
  LET n == Len(sel.media_files)
      Bookkeep(f, cur) ==
        [sel EXCEPT !.current_index = cur, !.last_selected = f]
  IN  IF n = 0 THEN {}
      ELSE IF mode = "sequential"
        THEN { Bookkeep(sel.current_index + 1, (sel.current_index + 1) % n) }
        ELSE { Bookkeep(f, sel.current_index) : f \in 1..n }

\* The selections select_next can make (selector.py 206-272), as the
\* selector after the call; empty when it raises ValueError.
SelectNext(sel, mode, anti, avoid) ==
  LET n == Len(sel.media_files)
      Bookkeep(f, cur) ==
        [sel EXCEPT !.current_index = cur,
                    !.reuse_count[f] = @ + 1,
                    !.last_selected = f]
  IN  IF n = 0 THEN {}
      ELSE IF mode = "sequential"
        THEN LET r == SequentialScan(n, sel.current_index, anti, avoid, 0)
             IN  { Bookkeep(r.file, r.current_index) }
        ELSE { Bookkeep(f, sel.current_index) : f \in RandomChoices(n, anti, avoid) }

\* ------------------------------------------------------ process_audio_file
\* The draws random.uniform makes for the planner of a job: alternately the
\* low and the high end of the sampling range.  Every other draw is left to
\* PlannerSpec.
JobDraws(p) ==
  LET r == DrawRange(p)
  IN  { [i \in 1..p.num_clips |-> IF i % 2 = 1 THEN r.lo ELSE r.hi] }

\* The duration lists plan_clips can end with (planner.py 79-89) for a
\* planner whose num_clips is set.
PlanClipsDurations(p) ==
  IF p.num_clips = 1
    THEN { << SingleClipDuration(p) >> }
    ELSE { PlanMultipleClips(p, drawn) : drawn \in JobDraws(p) }

\* A temp file named after the first clip whatever the index.
TempFileSameName(clip_index) == << 0, 0, 0, 0 >>

\* f"clip_{clip_index:04d}.mp4" (engine.py 393) for clip_index < 10000: the
\* four decimal digits of the index.
TempFile(clip_index) ==
  << (clip_index \div 1000) % 10, (clip_index \div 100) % 10,
     (clip_index \div 10) % 10, clip_index % 10 >>

\* _process_clip passing None as avoid_file whatever the setting.
AvoidFileNever(cfg, sel) == 0

\* The avoid_file _process_clip passes (engine.py 389): last_selected, which
\* is None (0) before the first selection, or None.
AvoidFile(cfg, sel) == IF cfg.anti_consecutive THEN sel.last_selected ELSE 0

\* The handler's assignment to the result (engine.py 289-291), without the
\* status assignment.
HandleExceptionKeepStatus(res, message, t) ==
  [res EXCEPT !.error_message = message, !.end_time = t]

\* A handler that catches ValueError only.
CatchesValueErrorOnly(e) == e.class = "ValueError"

\* `except Exception` (engine.py 287): what the handler catches.
Catches(e) == e.class \in {"ValueError", "RuntimeError", "TimeoutExpired"}

\* The top-level handler (engine.py 287-292).
HandleException(res, message, t) ==
  [res EXCEPT !.status = "FAILED", !.error_message = message, !.end_time = t]

\* An early exit with FAILED (engine.py 167-169, 181-183, 240-242, 261-263).
Fail(res, message, t) ==
  [res EXCEPT !.status = "FAILED", !.error_message = message, !.end_time = t]

\* A decline that is recorded as a failure.
CancelAsFailed(res) ==
  [res EXCEPT !.status = "FAILED", !.error_message = MsgCancelled]

\* The user declined (engine.py 161-163): no end_time is taken.
Cancel(res) ==
  [res EXCEPT !.status = "CANCELLED", !.error_message = MsgCancelled]

\* engine.py 132-140: the call starts; every local is fresh.
BeginJob ==
  /\ pc = "call"
  /\ result' = NewJobResult(clock)
  /\ clock' = clock + 1
  /\ pc' = "try"
  /\ exc' = NoExc
  /\ env' = NoEnv
  /\ validation_result' = NoValidation
  /\ audio_info' = NoInfo
  /\ clip_plans' = 0
  /\ clip_i' = 0
  /\ clip_files' = << >>
  /\ clip_log' = << >>
  /\ clip_calls' = << >>
  /\ selector' = NoSelector
  /\ calls' = NoCalls
  /\ confirm_answer' = "none"
  /\ concat_result' = "none"
  /\ ffmpeg' = NewJobRuns(ffmpeg)
  /\ planner' = NoPlanner
  /\ durations' = << >>
  /\ plans' = << >>
  /\ UNCHANGED << config, batchvars, ppc, selectorvars >>

\* engine.py 142-152.
EnterValidating ==
  /\ pc = "try"
  /\ result' = [result EXCEPT !.status = "VALIDATING"]
  /\ ReportProgress("validate")
  /\ UNCHANGED << config, clock, env, validation_result, audio_info,
                  clip_plans, clip_i, clip_files, clip_log, clip_calls,
                  selector, calls,
                  confirm_answer, concat_result, ffmpeg, batchvars, libvars >>

\* engine.py 154-157, 166-174: _validate_inputs reads the disk (the folder
\* is read only when the audio file exists, its files only when the folder
\* does), then the job fails, goes on to ask the user, or goes on to probe.
Validate ==
  /\ pc = "validate"
  /\ \E ae \in BOOLEAN :
       \E fe \in (IF ae THEN BOOLEAN ELSE {FALSE}) :
         \E files \in (IF fe THEN Folders ELSE {<< >>}) :
           LET vr == ValidateInputs(config, ae, fe, Len(files))
           IN  /\ env' = [read |-> TRUE, audio_exists |-> ae,
                          folder_exists |-> fe, files |-> files]
               /\ validation_result' = vr
               /\ IF ~vr.valid
                    THEN IF vr.prompt_user /\ config.has_confirm_callback
                           THEN /\ pc' = "confirm"
                                /\ UNCHANGED << result, clock >>
                           ELSE /\ result' = Fail(result, vr.message, clock)
                                /\ clock' = clock + 1
                                /\ pc' = "returned"
                    ELSE /\ result' = [result EXCEPT !.warnings = @ \o vr.warnings]
                         /\ pc' = "probe"
                         /\ UNCHANGED clock
  /\ Called("validate")
  /\ UNCHANGED << config, exc, audio_info, clip_plans, clip_i, clip_files,
                  clip_log, clip_calls, selector, confirm_answer,
                  concat_result, ffmpeg,
                  batchvars, libvars >>

\* engine.py 158-165, 172-174: the confirmation callback answers or raises.
Confirm ==
  /\ pc = "confirm"
  /\ Called("confirm")
  /\ \/ /\ confirm_answer' = "no"
        /\ result' = Cancel(result)
        /\ pc' = "returned"
        /\ exc' = exc
     \/ /\ confirm_answer' = "yes"
        /\ result' = [result EXCEPT !.warnings =
                        Append(@, validation_result.message)
                          \o validation_result.warnings]
        /\ pc' = "probe"
        /\ exc' = exc
     \/ /\ confirm_answer' = "raised"
        /\ \E m \in CallbackExcMessages : exc' = Raised("RuntimeError", m)
        /\ pc' = "except"
        /\ result' = result
  /\ UNCHANGED << config, clock, env, validation_result, audio_info,
                  clip_plans, clip_i, clip_files, clip_log, clip_calls,
                  selector,
                  concat_result, ffmpeg, batchvars, libvars >>

\* engine.py 176-187.
Probe ==
  /\ pc = "probe"
  /\ Called("probe")
  /\ \E run \in RunOutcomes(ffmpeg.failure) :
       \E reported \in (IF run = "ok" THEN MediaInfos ELSE {NoInfo}) :
         LET r == GetMediaInfo(run, reported)
         IN  /\ ffmpeg' = [ffmpeg EXCEPT !.probe_run = run]
             /\ IF r.raised
                  THEN /\ exc' = Raised("TimeoutExpired", MsgTimedOut)
                       /\ pc' = "except"
                       /\ UNCHANGED << audio_info, result, clock >>
                  ELSE /\ audio_info' = r.info
                       /\ exc' = exc
                       /\ IF GetDuration(r.info) = 0
                            THEN /\ result' = Fail(result, MsgNoDuration, clock)
                                 /\ clock' = clock + 1
                                 /\ pc' = "returned"
                            ELSE /\ result' = [result EXCEPT !.duration =
                                                 GetDuration(r.info)]
                                 /\ pc' = "planning"
                                 /\ UNCHANGED clock
  /\ UNCHANGED << config, env, validation_result, clip_plans, clip_i,
                  clip_files, clip_log, clip_calls, selector, confirm_answer,
                  concat_result, batchvars, libvars >>

\* engine.py 189-191.
EnterPlanning ==
  /\ pc = "planning"
  /\ result' = [result EXCEPT !.status = "PLANNING"]
  /\ ReportProgress("plan")
  /\ UNCHANGED << config, clock, env, validation_result, audio_info,
                  clip_plans, clip_i, clip_files, clip_log, clip_calls,
                  selector, calls,
                  confirm_answer, concat_result, ffmpeg, batchvars, libvars >>

\* engine.py 193-215: the selector is built over the asset folder, then the
\* planner is built (or raises) and plans.
Plan ==
  /\ pc = "plan"
  /\ \E media \in LoadMedia(env.files, config.selection_mode) :
       selector' = NewSelector(media)
  /\ calls' = [calls EXCEPT !["selector"] = @ + 1, !["planner"] = @ + 1]
  /\ IF PlannerRejects(config.clips)
       THEN /\ exc' = Raised("ValueError", MsgMinGtMax)
            /\ pc' = "except"
            /\ UNCHANGED << result, clip_plans >>
            /\ UNCHANGED plannervars
       ELSE LET p == [NewPlanner(result.duration, config.clips) EXCEPT
                        !.num_clips =
                          EstimateClipCount(config.clips, result.duration)]
            IN  \E s \in PlanClipsDurations(p) :
                  /\ planner' = p
                  /\ durations' = s
                  /\ plans' = ClipPlans(p, s)
                  /\ clip_plans' = Len(plans')
                  /\ result' = [result EXCEPT !.clips_processed = clip_plans']
                  /\ pc' = "processing"
                  /\ exc' = exc
                  /\ UNCHANGED ppc
  /\ UNCHANGED << config, clock, env, validation_result, audio_info, clip_i,
                  clip_files, clip_log, clip_calls, confirm_answer,
                  concat_result, ffmpeg, batchvars, selectorvars >>

\* engine.py 217-222.
EnterProcessing ==
  /\ pc = "processing"
  /\ result' = [result EXCEPT !.status = "PROCESSING"]
  /\ ReportProgress("clip")
  /\ UNCHANGED << config, clock, env, validation_result, audio_info,
                  clip_plans, clip_i, clip_files, clip_log, clip_calls,
                  selector, calls,
                  confirm_answer, concat_result, ffmpeg, batchvars, libvars >>

\* Bookkeeping that keeps the temp file of every clip attempted.
KeepClipAlways(files, i, ok) == Append(files, i)

\* The clip loop's bookkeeping for one clip (engine.py 234-237): the temp
\* file of a processed clip is appended, a failed clip is only logged.
KeepClip(files, i, ok) == IF ok THEN Append(files, i) ELSE files

\* One iteration of the clip loop (engine.py 223-237) with _process_clip
\* (engine.py 385-428): the progress callback may raise; otherwise the
\* selector chooses (or raises, which _process_clip catches) and the
\* transcoder encodes the chosen file and reports success or failure.
ProcessClip ==
  /\ pc = "clip"
  /\ clip_i < clip_plans
  /\ \/ /\ config.has_progress_callback
        /\ \E m \in CallbackExcMessages : exc' = Raised("RuntimeError", m)
        /\ pc' = "except"
        /\ UNCHANGED << selector, calls, clip_files, clip_log, clip_calls,
                        clip_i >>
     \/ LET clip_plan == plans[clip_i + 1]
            avoid == AvoidFile(config, selector)
            choices == SelectNext(selector, config.selection_mode,
                                  config.anti_consecutive, avoid)
            call == [clip_index |-> clip_i, duration |-> clip_plan.duration,
                     avoid_file |-> avoid, file |-> 0, temp_file |-> << >>,
                     run |-> "none"]
        IN  /\ UNCHANGED << pc, exc >>
            /\ clip_i' = clip_i + 1
            /\ IF choices = {}
                 THEN /\ Called("select_next")
                      /\ clip_log' = Append(clip_log, "raised")
                      /\ clip_calls' = Append(clip_calls, call)
                      /\ clip_files' = KeepClip(clip_files, clip_i, FALSE)
                      /\ UNCHANGED selector
                 ELSE \E sel \in choices, run \in RunOutcomes(ffmpeg.failure) :
                        LET kind == sel.media_files[sel.last_selected]
                            encode == IF kind = "image" THEN "encode_image"
                                                        ELSE "encode_video"
                            r == EncodeClip(run)
                            ok == ~r.raised /\ r.success
                        IN  /\ selector' = sel
                            /\ calls' = [calls EXCEPT !["select_next"] = @ + 1,
                                                      ![encode] = @ + 1]
                            /\ clip_log' = Append(clip_log,
                                 IF r.raised THEN "raised"
                                 ELSE IF ok THEN "ok" ELSE "encode_failed")
                            /\ clip_calls' = Append(clip_calls,
                                 [call EXCEPT !.file = sel.last_selected,
                                              !.temp_file = TempFile(clip_i),
                                              !.run = run])
                            /\ clip_files' = KeepClip(clip_files, clip_i, ok)
  /\ UNCHANGED << config, result, clock, env, validation_result, audio_info,
                  clip_plans, confirm_answer, concat_result, ffmpeg, batchvars,
                  libvars >>

\* engine.py 239-247: after the loop.
FinishClips ==
  /\ pc = "clip"
  /\ clip_i = clip_plans
  /\ \/ /\ clip_files = << >>
        /\ result' = Fail(result, MsgNoClips, clock)
        /\ clock' = clock + 1
        /\ pc' = "returned"
        /\ exc' = exc
     \/ /\ clip_files # << >>
        /\ result' = [result EXCEPT !.status = "FINALIZING"]
        /\ ReportProgress("concat")
        /\ UNCHANGED clock
  /\ UNCHANGED << config, env, validation_result, audio_info, clip_plans,
                  clip_i, clip_files, clip_log, clip_calls, selector, calls,
                  confirm_answer, concat_result, ffmpeg, batchvars, libvars >>

\* engine.py 249-264: concatenate_clips reports success or failure
\* (orchestrator.py 403-442 catches what its subprocess raises).
Concatenate ==
  /\ pc = "concat"
  /\ Called("concatenate")
  /\ \E run \in RunOutcomes(ffmpeg.failure) :
       LET r == ConcatenateClips(run)
       IN  /\ ffmpeg' = [ffmpeg EXCEPT !.concat_run = run]
           /\ IF r.raised
                THEN /\ exc' = Raised("TimeoutExpired", MsgTimedOut)
                     /\ pc' = "except"
                     /\ concat_result' = "raised"
                     /\ result' = [result EXCEPT !.output_file = TRUE]
                     /\ UNCHANGED clock
                ELSE /\ concat_result' = IF r.success THEN "ok" ELSE "failed"
                     /\ exc' = exc
                     /\ IF r.success
                          THEN /\ result' = [result EXCEPT !.output_file = TRUE]
                               /\ pc' = "cleanup"
                               /\ UNCHANGED clock
                          ELSE /\ result' =
                                    Fail([result EXCEPT !.output_file = TRUE],
                                         MsgConcatFailed, clock)
                               /\ clock' = clock + 1
                               /\ pc' = "returned"
  /\ UNCHANGED << config, env, validation_result, audio_info, clip_plans,
                  clip_i, clip_files, clip_log, clip_calls, selector,
                  confirm_answer, batchvars, libvars >>

\* engine.py 266-267: cleanup_temp_files (orchestrator.py 722-732) catches
\* what it raises.
Cleanup ==
  /\ pc = "cleanup"
  /\ Called("cleanup")
  /\ pc' = "complete"
  /\ UNCHANGED << config, result, exc, clock, env, validation_result,
                  audio_info, clip_plans, clip_i, clip_files, clip_log,
                  clip_calls,
                  selector, confirm_answer, concat_result, ffmpeg, batchvars,
                  libvars >>

\* engine.py 269-272.
Complete ==
  /\ pc = "complete"
  /\ result' = [result EXCEPT !.status = "COMPLETED", !.end_time = clock]
  /\ clock' = clock + 1
  /\ ReportProgress("metrics")
  /\ UNCHANGED << config, env, validation_result, audio_info, clip_plans,
                  clip_i, clip_files, clip_log, clip_calls, selector, calls,
                  confirm_answer, concat_result, ffmpeg, batchvars, libvars >>

\* engine.py 274-285.
CollectMetrics ==
  /\ pc = "metrics"
  /\ Called("statistics")
  /\ result' = [result EXCEPT !.metrics = TRUE]
  /\ pc' = "returned"
  /\ UNCHANGED << config, exc, clock, env, validation_result, audio_info,
                  clip_plans, clip_i, clip_files, clip_log, clip_calls,
                  selector,
                  confirm_answer, concat_result, ffmpeg, batchvars, libvars >>

\* engine.py 287-292: the handler of the try block; an exception it does
\* not catch leaves process_audio_file.
ExceptHandler ==
  /\ pc = "except"
  /\ IF Catches(exc)
       THEN /\ result' = HandleException(result, exc.message, clock)
            /\ clock' = clock + 1
            /\ pc' = "returned"
       ELSE /\ pc' = "raised"
            /\ UNCHANGED << result, clock >>
  /\ UNCHANGED << config, exc, env, validation_result, audio_info,
                  clip_plans, clip_i, clip_files, clip_log, clip_calls,
                  selector, calls,
                  confirm_answer, concat_result, ffmpeg, batchvars, libvars >>

JobNext ==
  \/ BeginJob
  \/ EnterValidating
  \/ Validate
  \/ Confirm
  \/ Probe
  \/ EnterPlanning
  \/ Plan
  \/ EnterProcessing
  \/ ProcessClip
  \/ FinishClips
  \/ Concatenate
  \/ Cleanup
  \/ Complete
  \/ CollectMetrics
  \/ ExceptHandler

\* ------------------------------------------------------------ batch_process
\* The entry batch_process appends for a JobResult: the file it is for and
\* the status it came back with.
BatchEntry(i, res) == [audio_file |-> i, status |-> res.status]

CountStatus(rs, st) == Cardinality({ i \in 1..Len(rs) : rs[i].status = st })

\* engine.py 447-462: the directory is missing or holds no audio file, and
\* batch_process returns []; or it holds some, and the loop starts.
BatchStart ==
  /\ bpc = "start"
  /\ \E dir_exists \in BOOLEAN :
       \E k \in (IF dir_exists THEN 0..MaxBatch ELSE {0}) :
         /\ audio_files' = k
         /\ bpc' = IF k = 0 THEN "done" ELSE "loop"
  /\ batch_i' = 0
  /\ results' = << >>
  /\ UNCHANGED << config, jobvars, summary, libvars >>

\* engine.py 465-472: the loop calls process_audio_file for the next file.
BatchCall ==
  /\ bpc = "loop"
  /\ batch_i < audio_files
  /\ pc = "idle"
  /\ pc' = "call"
  /\ bpc' = "in_job"
  /\ UNCHANGED << config, result, exc, clock, env, validation_result,
                  audio_info, clip_plans, clip_i, clip_files, clip_log,
                  clip_calls,
                  selector, calls, confirm_answer, concat_result, ffmpeg,
                  audio_files, batch_i, results, summary, libvars >>

\* engine.py 474-482: the call came back and its result is appended; a call
\* that raised takes batch_process with it.  The frame of the call is gone:
\* its locals are back to what InitJob gives them, and the result lives on
\* in results.  A call reads the clock at most four times, so the next one
\* starts at a later time whatever the path of this one was.
BatchCollect ==
  /\ bpc = "in_job"
  /\ pc \in {"returned", "raised"}
  /\ IF pc = "returned"
       THEN /\ results' = Append(results, BatchEntry(batch_i, result))
            /\ batch_i' = batch_i + 1
            /\ bpc' = "loop"
       ELSE /\ bpc' = "raised"
            /\ UNCHANGED << results, batch_i >>
  /\ pc' = "idle"
  /\ clock' = 4 * (batch_i + 1) + 1
  /\ result' = NewJobResult(0)
  /\ exc' = NoExc
  /\ env' = NoEnv
  /\ validation_result' = NoValidation
  /\ audio_info' = NoInfo
  /\ clip_plans' = 0
  /\ clip_i' = 0
  /\ clip_files' = << >>
  /\ clip_log' = << >>
  /\ clip_calls' = << >>
  /\ selector' = NoSelector
  /\ calls' = NoCalls
  /\ confirm_answer' = "none"
  /\ concat_result' = "none"
  /\ ffmpeg' = NewJobRuns(ffmpeg)
  /\ planner' = NoPlanner
  /\ durations' = << >>
  /\ plans' = << >>
  /\ UNCHANGED << config, audio_files, summary, ppc, selectorvars >>

\* engine.py 484-501: the counts are logged and the list is returned.
BatchSummary ==
  /\ bpc = "loop"
  /\ batch_i = audio_files
  /\ summary' = [completed |-> CountStatus(results, "COMPLETED"),
                 failed |-> CountStatus(results, "FAILED"),
                 cancelled |-> CountStatus(results, "CANCELLED")]
  /\ bpc' = "done"
  /\ UNCHANGED << config, jobvars, audio_files, batch_i, results, libvars >>

\* ------------------------------------------------------------ specifications
\* The configurations explored: every combination of the settings and
\* callbacks in sequential mode; random mode with the validation settings
\* the command line's --no-prompt gives and no callbacks.
InitConfigs ==
  { c \in Configs :
      c.selection_mode = "random" =>
        /\ ~c.has_progress_callback
        /\ ~c.has_confirm_callback
        /\ c.warn_insufficient_media
        /\ ~c.prompt_on_shortage
        /\ ~PlannerRejects(c.clips) }

InitJob ==
  /\ result = NewJobResult(0)
  /\ exc = NoExc
  /\ clock = 1
  /\ env = NoEnv
  /\ validation_result = NoValidation
  /\ audio_info = NoInfo
  /\ clip_plans = 0
  /\ clip_i = 0
  /\ clip_files = << >>
  /\ clip_log = << >>
  /\ clip_calls = << >>
  /\ selector = NoSelector
  /\ calls = NoCalls
  /\ confirm_answer = "none"
  /\ concat_result = "none"
  /\ audio_files = 0
  /\ batch_i = 0
  /\ results = << >>
  /\ summary = [completed |-> 0, failed |-> 0, cancelled |-> 0]

\* No DurationPlanner is under call on its own.
IdlePlanner ==
  /\ ppc = "none"
  /\ planner = NoPlanner
  /\ durations = << >>
  /\ plans = << >>

\* No MediaSelector is under call on its own.
IdleSelector ==
  /\ spc = "none"
  /\ used_segments = << >>
  /\ selection = NoSelection
  /\ returned = << >>
  /\ retry = NoRetry

\* One call of process_audio_file.
Init ==
  /\ config \in InitConfigs
  /\ ffmpeg \in { NewTranscoder(f) : f \in FailureModes }
  /\ pc = "call"
  /\ bpc = "none"
  /\ InitJob
  /\ IdlePlanner
  /\ IdleSelector

Next == JobNext

Spec == Init /\ [][Next]_vars

\* One call of batch_process, by an engine with a progress callback (which
\* may or may not raise at each report) in sequential mode.
BatchConfigs ==
  { c \in InitConfigs :
      /\ c.selection_mode = "sequential"
      /\ c.has_progress_callback }

BatchInit ==
  /\ config \in BatchConfigs
  /\ ffmpeg = NewTranscoder("nonzero")
  /\ pc = "idle"
  /\ bpc = "start"
  /\ InitJob
  /\ IdlePlanner
  /\ IdleSelector

BatchNext ==
  \/ JobNext
  \/ BatchStart
  \/ BatchCall
  \/ BatchCollect
  \/ BatchSummary

BatchSpec == BatchInit /\ [][BatchNext]_vars

\* ============================================================ DurationPlanner
\* DurationPlanner.__init__ (planner.py 53-70): returns or raises ValueError.
PlannerNew ==
  /\ ppc = "new"
  /\ ppc' = IF PlannerRejects(planner) THEN "init_raised" ELSE "constructed"
  /\ UNCHANGED << config, jobvars, batchvars, planner, durations, plans,
                  selectorvars >>

\* plan_clips up to its branch (planner.py 79-89, 91-117).
PlanClips ==
  /\ ppc = "constructed"
  /\ IF EstimateRaises(planner)
       THEN /\ ppc' = "plan_raised"
            /\ UNCHANGED planner
       ELSE LET n == EstimateClipCount(planner, planner.audio_duration)
            IN  /\ planner' = [planner EXCEPT !.num_clips = n]
                /\ ppc' = IF n = 1 THEN "single" ELSE "draw"
  /\ UNCHANGED << config, jobvars, batchvars, durations, plans, selectorvars >>

\* _plan_single_clip (planner.py 119-141).
PlanSingleClip ==
  /\ ppc = "single"
  /\ LET duration == SingleClipDuration(planner)
     IN  plans' = << [index |-> 0, duration |-> duration, start_time |-> 0,
                      end_time |-> duration] >>
  /\ ppc' = "done"
  /\ UNCHANGED << config, jobvars, batchvars, planner, durations,
                  selectorvars >>

\* One pass of the sampling loop of _plan_multiple_clips (planner.py 162-173).
DrawDuration ==
  /\ ppc = "draw"
  /\ Len(durations) < planner.num_clips
  /\ \E d \in UniformDraws(DrawRange(planner).lo, DrawRange(planner).hi) :
       durations' = Append(durations, d)
  /\ UNCHANGED << config, jobvars, batchvars, ppc, planner, plans,
                  selectorvars >>

\* planner.py 177-178.
SoftBudget ==
  /\ ppc = "draw"
  /\ Len(durations) = planner.num_clips
  /\ durations' = ApplySoftBudgeting(planner, durations)
  /\ ppc' = "absorb"
  /\ UNCHANGED << config, jobvars, batchvars, planner, plans, selectorvars >>

\* planner.py 180-188.
Absorb ==
  /\ ppc = "absorb"
  /\ durations' = AbsorbStage(planner, durations)
  /\ ppc' = "adjust"
  /\ UNCHANGED << config, jobvars, batchvars, planner, plans, selectorvars >>

\* planner.py 190-197: the residual goes to the last clip, which is clamped.
FinalAdjust ==
  /\ ppc = "adjust"
  /\ durations' = ResidualStage(planner, durations)
  /\ ppc' = "timeline"
  /\ UNCHANGED << config, jobvars, batchvars, planner, plans, selectorvars >>

\* planner.py 199-221.
BuildPlans ==
  /\ ppc = "timeline"
  /\ plans' = ClipPlans(planner, durations)
  /\ ppc' = "done"
  /\ UNCHANGED << config, jobvars, batchvars, planner, durations,
                  selectorvars >>

\* The Config a fresh engine has (loader.py 46-58), with no callbacks.
DefaultConfig ==
  [ warn_insufficient_media |-> TRUE, prompt_on_shortage |-> TRUE,
    anti_consecutive |-> TRUE, selection_mode |-> "sequential",
    clips |-> [min_clip |-> min_clip_duration, max_clip |-> max_clip_duration,
               overlap |-> overlap_duration],
    has_progress_callback |-> FALSE, has_confirm_callback |-> FALSE ]

\* One DurationPlanner is constructed and asked for its plan.
PlannerInit ==
  /\ config = DefaultConfig
  /\ ffmpeg = NewTranscoder("nonzero")
  /\ pc = "idle"
  /\ bpc = "none"
  /\ InitJob
  /\ IdleSelector
  /\ ppc = "new"
  /\ planner \in PlannerInputs
  /\ durations = << >>
  /\ plans = << >>

PlannerNext ==
  \/ PlannerNew
  \/ PlanClips
  \/ PlanSingleClip
  \/ DrawDuration
  \/ SoftBudget
  \/ Absorb
  \/ FinalAdjust
  \/ BuildPlans

PlannerSpec == PlannerInit /\ [][PlannerNext]_vars

\* ============================================================== MediaSelector
\* video_duration when the file's duration is unknown (selector.py 283), in
\* tenths of a second; no code sets MediaFile.duration.
default_video_duration == 300

\* The durations select_next is asked for: a short one, one that a used
\* short segment in the middle of the video leaves no gap for, and one
\* longer than the video.
SelectDurations ==
  { (2 * default_video_duration) \div 15,
    (2 * default_video_duration) \div 3,
    default_video_duration + 2 * max_clip_duration }

\* The folders a selector is constructed over: in random mode, where every
\* order of the pool and every draw is explored, one file fewer.
SelectorFolders(mode) ==
  IF mode = "random" THEN { f \in Folders : Len(f) < MaxFiles } ELSE Folders

\* The selectors constructed: every mode and anti_consecutive setting.
SelectorConfigs ==
  { [DefaultConfig EXCEPT !.selection_mode = m, !.anti_consecutive = a] :
      m \in {"sequential", "random"}, a \in BOOLEAN }

\* A variation on every selection.
VariationAlways(reuse_count) == TRUE

\* selection.variation is set (selector.py 268-269).
Variation(reuse_count) == reuse_count > 1

\* sorted(used_segments) (selector.py 337): by start, then by end.
SegmentBefore(a, b) == a[1] < b[1] \/ (a[1] = b[1] /\ a[2] <= b[2])

RECURSIVE InsertSegment(_, _)
InsertSegment(s, x) ==
  IF s = << >> THEN << x >>
  ELSE IF SegmentBefore(x, s[1]) THEN << x >> \o s
  ELSE << s[1] >> \o InsertSegment(Tail(s), x)

RECURSIVE SortSegments(_)
SortSegments(s) ==
  IF s = << >> THEN << >>
  ELSE InsertSegment(SortSegments(Tail(s)), s[1])

RECURSIVE UsedLength(_)
UsedLength(s) ==
  IF s = << >> THEN 0 ELSE (s[1][2] - s[1][1]) + UsedLength(Tail(s))

\* random.uniform(0, max(0, total - needed)) (selector.py 309, 354).
RandomStarts(total, needed) == UniformDraws(0, Max(0, total - needed))

\* The scan of _find_available_video_segment over the sorted segments from
\* the k-th on (selector.py 340-354).
RECURSIVE GapScan(_, _, _, _, _)
GapScan(sorted, k, last_end, total, needed) ==
  IF k > Len(sorted)
    THEN IF total - last_end >= needed THEN {last_end}
                                       ELSE RandomStarts(total, needed)
    ELSE IF sorted[k][1] - last_end >= needed
           THEN {last_end}
           ELSE GapScan(sorted, k + 1, sorted[k][2], total, needed)

\* A search that looks only at the end of the video.
FindTrailingSegment(total, needed, used) ==
  LET sorted == SortSegments(used)
  IN  GapScan(sorted, Len(sorted) + 1, sorted[Len(sorted)][2], total, needed)

\* _find_available_video_segment (selector.py 319-354).
FindAvailableVideoSegment(total, needed, used) ==
  GapScan(SortSegments(used), 1, 0, total, needed)

\* A first use that has no start for a duration longer than the video.
FirstUseStartsUnguarded(total, needed) ==
  IF total - needed > 0 THEN UniformDraws(0, total - needed) ELSE {}

\* The first use of a video (selector.py 289-292).
FirstUseStarts(total, needed) ==
  LET max_start == Max(0, total - needed)
  IN  IF max_start > 0 THEN UniformDraws(0, max_start) ELSE {0}

\* The start times _plan_video_segment can choose (selector.py 283-309).
SegmentStarts(used, needed) ==
  LET video_duration == default_video_duration
  IN  IF used = << >>
        THEN FirstUseStarts(video_duration, needed)
        ELSE IF video_duration - UsedLength(used) >= needed
               THEN FindAvailableVideoSegment(video_duration, needed, used)
               ELSE RandomStarts(video_duration, needed)

\* A segment that runs past the end of the video.
SegmentUnclamped(start, needed) == << start, start + needed >>

\* The segment recorded for a start (selector.py 311-317).
Segment(start, needed) ==
  << start, Min(start + needed, default_video_duration) >>

\* get_statistics()['reuse_stats'] (selector.py 381-383).
GetStatistics(sel) ==
  [f \in { g \in 1..Len(sel.media_files) : sel.reuse_count[g] > 0 } |->
     sel.reuse_count[f]]

\* MediaSelector(...) (selector.py 84-101): the folder is missing, or it is
\* scanned; the constructor returns in both cases.
SelectorNew ==
  /\ spc = "new"
  /\ \E exists \in BOOLEAN :
       \E files \in (IF exists THEN SelectorFolders(config.selection_mode)
                               ELSE {<< >>}) :
         \E media \in LoadMedia(files, config.selection_mode) :
           /\ selector' = NewSelector(media)
           /\ used_segments' = [i \in 1..Len(media) |-> << >>]
           /\ returned' = [i \in 1..Len(media) |-> 0]
  /\ spc' = "constructed"
  /\ UNCHANGED << config, pc, result, exc, clock, env, validation_result,
                  audio_info, clip_plans, clip_i, clip_files, clip_log,
                  clip_calls, calls, confirm_answer, concat_result, ffmpeg,
                  batchvars, plannervars, selection, retry >>

\* A file that gets a video segment whatever its type.
HasSegmentAlways(media_type) == TRUE

\* select_next plans a video segment for the file (selector.py 263-265).
HasSegment(media_type) == media_type = "video"

\* The rest of select_next once the file is chosen (selector.py 254-272):
\* sel is the selector after the bookkeeping of the chosen file.
ReturnSelection(sel, avoid, duration) ==
  LET f == sel.last_selected
      video == HasSegment(sel.media_files[f])
      starts == IF video THEN SegmentStarts(used_segments[f], duration)
                         ELSE {0}
  IN  IF starts = {}
        THEN /\ spc' = "raised"
             /\ UNCHANGED << selector, used_segments, selection, returned >>
        ELSE \E start \in starts :
               /\ selector' = sel
               /\ used_segments' =
                    IF video
                      THEN [used_segments EXCEPT ![f] =
                              Append(@, Segment(start, duration))]
                      ELSE used_segments
               /\ returned' = [returned EXCEPT ![f] = @ + 1]
               /\ selection' =
                    [ file |-> f,
                      duration |-> duration,
                      avoided |-> (avoid = f),
                      has_segment |-> video,
                      start_time |-> start,
                      end_time |-> IF video THEN Segment(start, duration)[2]
                                            ELSE 0,
                      variation |-> Variation(sel.reuse_count[f]) ]
               /\ spc' = "selected"

\* select_next(duration, avoid_file) (selector.py 191-272): avoid_file is
\* None (0), a file of the pool, or a file that is not in the pool.  The
\* selection returned is kept with whether it is the file to avoid.
SelectNextCall ==
  /\ spc \in {"constructed", "selected", "reset"}
  /\ SumSeq(returned) < MaxSelects
  /\ \E avoid \in 0..(Len(selector.media_files) + 1),
        duration \in SelectDurations :
       LET choices == SelectNext(selector, config.selection_mode,
                                 config.anti_consecutive, avoid)
       IN  IF choices = {}
             THEN /\ spc' = "raised"
                  /\ UNCHANGED << selector, used_segments, selection,
                                  returned >>
             ELSE \E sel \in choices : ReturnSelection(sel, avoid, duration)
  /\ UNCHANGED << config, pc, result, exc, clock, env, validation_result,
                  audio_info, clip_plans, clip_i, clip_files, clip_log,
                  clip_calls, calls, confirm_answer, concat_result, ffmpeg,
                  batchvars, plannervars, retry >>

\* A reset that leaves the cursor where it is.
ResetKeepsCursor(sel, media) ==
  [sel EXCEPT !.media_files = media,
              !.last_selected = 0,
              !.reuse_count = [i \in 1..Len(media) |-> 0]]

\* The selector after reset() (selector.py 389-397) with its pool in the
\* order `media`.
ResetSelector(sel, media) ==
  [sel EXCEPT !.media_files = media,
              !.current_index = 0,
              !.last_selected = 0,
              !.reuse_count = [i \in 1..Len(media) |-> 0]]

\* reset() (selector.py 387-397); the selection returned last stays with
\* its caller.
SelectorReset ==
  /\ spc \in {"constructed", "selected"}
  /\ \E media \in (IF config.selection_mode = "random"
                     THEN Shuffles(selector.media_files)
                     ELSE {selector.media_files}) :
       selector' = ResetSelector(selector, media)
  /\ used_segments' = [i \in 1..Len(selector.media_files) |-> << >>]
  /\ returned' = [i \in 1..Len(selector.media_files) |-> 0]
  /\ spc' = "reset"
  /\ UNCHANGED << config, pc, result, exc, clock, env, validation_result,
                  audio_info, clip_plans, clip_i, clip_files, clip_log,
                  clip_calls, calls, confirm_answer, concat_result, ffmpeg,
                  batchvars, plannervars, selection, retry >>

\* One MediaSelector is constructed and called.
SelectorInit ==
  /\ config \in SelectorConfigs
  /\ ffmpeg = NewTranscoder("nonzero")
  /\ pc = "idle"
  /\ bpc = "none"
  /\ InitJob
  /\ IdlePlanner
  /\ spc = "new"
  /\ used_segments = << >>
  /\ selection = NoSelection
  /\ returned = << >>
  /\ retry = NoRetry

SelectorNext ==
  \/ SelectorNew
  \/ SelectNextCall
  \/ SelectorReset

SelectorSpec == SelectorInit /\ [][SelectorNext]_vars

\* ------------------------------------------- select_next, random branch
\* max_attempts of the retry loop (selector.py 238).
max_attempts == 50

\* A loop that takes whatever it draws.
RejectsNothing(anti, avoid, candidate) == FALSE

\* The loop draws again (selector.py 243): only a consecutive repeat is
\* rejected, and only when anti_consecutive is on and avoid_file is given.
Rejects(anti, avoid, candidate) == anti /\ avoid # 0 /\ candidate = avoid

\* The bookkeeping of the chosen file (selector.py 255, 271).
Chosen(sel, f) ==
  [sel EXCEPT !.reuse_count[f] = @ + 1, !.last_selected = f]

\* select_next enters its random branch (selector.py 206-240): an empty pool
\* raises ValueError; a pool of one file has that file selected without a
\* draw; otherwise the loop starts with no attempt made.  The calls are
\* followed draw by draw for one call fewer than SelectorSpec makes.
RandomSelectBegin ==
  /\ spc \in {"constructed", "selected"}
  /\ SumSeq(returned) + 1 < MaxSelects
  /\ LET n == Len(selector.media_files)
     IN  IF n = 0
           THEN /\ spc' = "raised"
                /\ retry' = NoRetry
           ELSE \E avoid \in 0..(n + 1) :
                  /\ retry' = [NoRetry EXCEPT
                                 !.avoid_file = avoid,
                                 !.selected_file = IF n = 1 THEN 1 ELSE 0]
                  /\ spc' = IF n = 1 THEN "chosen" ELSE "loop"
  /\ UNCHANGED << config, jobvars, batchvars, plannervars, used_segments,
                  selection, returned >>

\* One pass of the retry loop (selector.py 241-248): a candidate is drawn;
\* a rejected one counts an attempt, any other one is selected and ends the
\* loop.  first_other is the number of the first draw that differed from
\* avoid_file.
RandomAttempt ==
  /\ spc = "loop"
  /\ retry.attempts < max_attempts
  /\ \E candidate \in 1..Len(selector.media_files) :
       LET rejected == Rejects(config.anti_consecutive, retry.avoid_file,
                               candidate)
       IN  /\ retry' = [retry EXCEPT
                          !.draws = @ + 1,
                          !.first_other =
                            IF @ = 0 /\ candidate # retry.avoid_file
                              THEN retry.draws + 1 ELSE @,
                          !.attempts = IF rejected THEN @ + 1 ELSE @,
                          !.selected_file =
                            IF rejected THEN 0 ELSE candidate]
           /\ spc' = IF rejected THEN "loop" ELSE "chosen"
  /\ UNCHANGED << config, jobvars, batchvars, plannervars, used_segments,
                  selection, returned >>

\* The loop ended with nothing selected (selector.py 250-252): one more
\* draw, taken whatever it is.
RandomFallback ==
  /\ spc = "loop"
  /\ retry.attempts >= max_attempts
  /\ \E candidate \in 1..Len(selector.media_files) :
       retry' = [retry EXCEPT !.draws = @ + 1, !.selected_file = candidate]
  /\ spc' = "chosen"
  /\ UNCHANGED << config, jobvars, batchvars, plannervars, used_segments,
                  selection, returned >>

\* select_next returns the selected file (selector.py 254-272).
RandomReturn ==
  /\ spc = "chosen"
  /\ \E duration \in SelectDurations :
       ReturnSelection(Chosen(selector, retry.selected_file),
                       retry.avoid_file, duration)
  /\ UNCHANGED << config, pc, result, exc, clock, env, validation_result,
                  audio_info, clip_plans, clip_i, clip_files, clip_log,
                  clip_calls, calls, confirm_answer, concat_result, ffmpeg,
                  batchvars, plannervars, retry >>

\* One MediaSelector in random mode, its select_next taken draw by draw.
RandomSelectInit ==
  /\ SelectorInit
  /\ config.selection_mode = "random"

RandomSelectNext ==
  \/ SelectorNew
  \/ RandomSelectBegin
  \/ RandomAttempt
  \/ RandomFallback
  \/ RandomReturn

RandomSelectSpec == RandomSelectInit /\ [][RandomSelectNext]_vars

\* ================================================================== claims
Range(s) == { s[i] : i \in 1..Len(s) }

\* _validate_inputs found the audio file and the asset folder, and the folder
\* holds at least one file but fewer than min_media_files
\* (engine.py 350-351).
Shortage ==
  /\ env.read
  /\ env.audio_exists
  /\ env.folder_exists
  /\ Len(env.files) > 0
  /\ Len(env.files) < min_media_files

\* No probe, selection, encode or concatenate call was made in this job.
NothingDispatched ==
  /\ calls["probe"] = 0
  /\ calls["selector"] = 0
  /\ calls["select_next"] = 0
  /\ calls["encode_image"] = 0
  /\ calls["encode_video"] = 0
  /\ calls["concatenate"] = 0

\* The job went on from validation to the probe.
WentOnToProbe == pc = "probe" \/ calls["probe"] >= 1

\* ---- C1
\* C1: once the status of a job is COMPLETED, FAILED or CANCELLED, no later
\* step of process_audio_file changes it, also when a call made after the
\* status was set to COMPLETED raises.
C1_TerminalStatusIsFinal ==
  [][result.status \in Terminal => result'.status = result.status]_vars

\* ---- C2
\* C2: every call of process_audio_file returns a JobResult with a terminal
\* status; an exception that reaches the handler is recorded as str(e) in
\* error_message with status FAILED; an exception the selector raises inside
\* a clip leaves the job FAILED with a message; nothing propagates to the
\* caller.
C2_ReturnsTerminalNeverRaises ==
  /\ pc # "raised"
  /\ pc = "returned" => result.status \in Terminal
  /\ (pc = "returned" /\ exc.raised) =>
       /\ result.status = "FAILED"
       /\ result.error_message = exc.message
  /\ (pc = "returned" /\ "raised" \in Range(clip_log)) =>
       /\ result.status = "FAILED"
       /\ ~exc.raised => result.error_message = MsgNoClips

\* C2 witness: a call returned after the planner raised ValueError.
C2_Witness ==
  /\ pc = "returned"
  /\ exc.raised
  /\ exc.class = "ValueError"
  /\ result.status = "FAILED"
  /\ result.error_message = MsgMinGtMax

\* ---- C3
\* C3: a job in which at least one clip was encoded and the concatenation
\* succeeded ends COMPLETED, whichever of its other clips failed; a job ends
\* FAILED for its clips only when every clip failed.
C3_PartialFailureTolerated ==
  /\ (pc = "returned" /\ "ok" \in Range(clip_log) /\ concat_result = "ok") =>
       result.status = "COMPLETED"
  /\ (pc = "returned" /\ result.error_message = MsgNoClips) =>
       /\ result.status = "FAILED"
       /\ "ok" \notin Range(clip_log)
       /\ Len(clip_log) = clip_plans

\* ---- C4
\* C4: without a confirmation callback a shortage never blocks the job: for
\* every configuration the job that returned went past validation to the
\* probe.
C4_NoCallbackShortageNeverBlocks ==
  (pc = "returned" /\ Shortage /\ ~config.has_confirm_callback) =>
    /\ calls["probe"] >= 1
    /\ result.status # "CANCELLED"

\* ---- C5
\* C5: when the confirmation callback answers no, the job ends CANCELLED and
\* no probe, selection, encode or concatenate call is made for it; when it
\* answers yes, the job goes on to the probe and its warnings hold the
\* shortage warning; the callback is asked only on a shortage with prompting
\* enabled, and CANCELLED is reached only through its decline.
C5_DeclineCancelsAcceptContinues ==
  /\ confirm_answer = "no" =>
       /\ pc = "returned"
       /\ result.status = "CANCELLED"
       /\ NothingDispatched
  /\ confirm_answer = "yes" =>
       /\ WentOnToProbe
       /\ MsgShortage \in Range(result.warnings)
  /\ calls["confirm"] >= 1 =>
       /\ Shortage
       /\ config.prompt_on_shortage
       /\ config.has_confirm_callback
       /\ calls["confirm"] = 1
  /\ result.status = "CANCELLED" => confirm_answer = "no"

\* C5 witness: the callback was asked on a shortage and declined.
C5_Witness ==
  /\ Shortage
  /\ config.prompt_on_shortage
  /\ config.has_confirm_callback
  /\ confirm_answer = "no"
  /\ result.status = "CANCELLED"
  /\ pc = "returned"

\* ---- C6
\* C6 as stated: with prompting disabled and a shortage, validation
\* succeeds, the confirmation callback is never invoked, the job goes on to
\* the probe, and the shortage warning is in the warnings of the result.
C6_AsStated ==
  (Shortage /\ ~config.prompt_on_shortage) =>
    /\ validation_result.valid
    /\ calls["confirm"] = 0
    /\ WentOnToProbe
    /\ MsgShortage \in Range(result.warnings)

\* C6 amended: the same, for a configuration with warn_insufficient_media
\* enabled; with it disabled validation succeeds and the job goes on, with
\* no callback and no warning.
C6_WithWarningsEnabled ==
  /\ (Shortage /\ ~config.prompt_on_shortage /\ config.warn_insufficient_media) =>
       /\ validation_result.valid
       /\ calls["confirm"] = 0
       /\ WentOnToProbe
       /\ MsgShortage \in Range(result.warnings)
  /\ (Shortage /\ ~config.warn_insufficient_media) =>
       /\ validation_result.valid
       /\ calls["confirm"] = 0
       /\ WentOnToProbe
       /\ result.warnings = << >>

\* C6 witness: a job with a confirmation callback, warnings enabled and
\* prompting disabled returned after a shortage.
C6_Witness ==
  /\ Shortage
  /\ ~config.prompt_on_shortage
  /\ config.warn_insufficient_media
  /\ config.has_confirm_callback
  /\ pc = "returned"
  /\ calls["confirm"] = 0
  /\ result.warnings = << MsgShortage >>

\* ---- C7
\* C7: when validation finds the audio file missing, the asset folder
\* missing or the asset folder empty, the job ends FAILED with a non-empty
\* error_message, with or without a confirmation callback, and no probe,
\* selection, encode or concatenate call is made.
C7_MissingInputsFail ==
  (env.read /\ (~env.audio_exists \/ ~env.folder_exists \/ env.files = << >>)) =>
    /\ pc = "returned"
    /\ result.status = "FAILED"
    /\ result.error_message # ""
    /\ calls["confirm"] = 0
    /\ NothingDispatched

\* C7 witness: the folder exists and is empty, and a confirmation callback
\* was supplied.
C7_Witness ==
  /\ env.read
  /\ env.audio_exists
  /\ env.folder_exists
  /\ env.files = << >>
  /\ config.has_confirm_callback
  /\ result.status = "FAILED"
  /\ result.error_message = MsgNoMediaFiles

\* ---- C8
\* C8: when the probe of the audio file fails or reports duration zero, the
\* job ends FAILED, and no plan is produced, no selector is constructed and
\* no encode or concatenate call is made.
C8_ProbeFailureFails ==
  (calls["probe"] >= 1 /\ (~audio_info.has_duration \/ audio_info.duration = 0)) =>
    /\ pc = "returned"
    /\ result.status = "FAILED"
    /\ result.error_message = MsgNoDuration
    /\ clip_plans = 0
    /\ calls["planner"] = 0
    /\ calls["selector"] = 0
    /\ ~selector.built
    /\ calls["select_next"] = 0
    /\ calls["encode_image"] = 0
    /\ calls["encode_video"] = 0
    /\ calls["concatenate"] = 0

\* C8 witness: the probe reported a duration of zero.
C8_Witness ==
  /\ calls["probe"] = 1
  /\ audio_info.has_duration
  /\ audio_info.duration = 0
  /\ result.status = "FAILED"

\* ---- C9
\* What holds of every state of the finalization.
C9_Finalization ==
  /\ calls["concatenate"] <= 1
  /\ calls["cleanup"] <= 1
  /\ calls["concatenate"] = 1 =>
       /\ clip_i = clip_plans
       /\ Len(clip_log) = clip_plans
       /\ "ok" \in Range(clip_log)
       /\ concat_result # "none"
  /\ concat_result = "failed" =>
       /\ pc = "returned"
       /\ result.status = "FAILED"
       /\ calls["cleanup"] = 0
  /\ concat_result = "ok" => (pc = "cleanup" \/ calls["cleanup"] = 1)
  /\ calls["cleanup"] = 1 => concat_result = "ok"
  /\ pc \in {"concat", "cleanup", "complete"} => result.status = "FINALIZING"

\* What holds of every step of the finalization: the status becomes
\* COMPLETED only after the cleanup, and it does so in the step after it.
C9_CompletedFollowsCleanup ==
  /\ (result'.status = "COMPLETED" /\ result.status # "COMPLETED") =>
       /\ calls["cleanup"] = 1
       /\ concat_result = "ok"
  /\ pc = "complete" => result'.status = "COMPLETED"
  /\ pc = "cleanup" => pc' = "complete"

\* C9: concatenation is invoked at most once, and only after every planned
\* clip was attempted and at least one succeeded; when it fails the job ends
\* FAILED and cleanup is not requested; when it succeeds cleanup is
\* requested and then the status becomes COMPLETED; cleanup never happens
\* without a successful concatenation.
C9_FinalizationOrder ==
  []C9_Finalization /\ [][C9_CompletedFollowsCleanup]_vars

\* C9 witness: a job with a failed clip was concatenated, cleaned up and
\* completed.
C9_Witness ==
  /\ pc = "returned"
  /\ "encode_failed" \in Range(clip_log)
  /\ concat_result = "ok"
  /\ calls["cleanup"] = 1
  /\ result.status = "COMPLETED"

\* ---- C10
\* C10: batch_process over k audio files returns k results, one per file in
\* iteration order, each with a terminal status, whatever the outcome of the
\* files before; the batch call never raises, and the completed, failed and
\* cancelled counts add up to k.
C10_BatchIndependence ==
  /\ bpc # "raised"
  /\ bpc = "loop" => pc = "idle"
  /\ bpc \in {"loop", "in_job"} =>
       /\ Len(results) = batch_i
       /\ batch_i <= audio_files
       /\ (bpc = "in_job" => batch_i < audio_files)
  /\ \A i \in 1..Len(results) :
       /\ results[i].audio_file = i - 1
       /\ results[i].status \in Terminal
  /\ bpc = "done" =>
       /\ Len(results) = audio_files
       /\ summary.completed + summary.failed + summary.cancelled = audio_files

\* C10 witness: a batch of two files returned, the first FAILED and the
\* second COMPLETED.
C10_Witness ==
  /\ bpc = "done"
  /\ audio_files = 2
  /\ Len(results) = 2
  /\ results[1].status = "FAILED"
  /\ results[2].status = "COMPLETED"

\* ---- C11
\* C11: for every audio_duration above the overlap and every min_clip <=
\* max_clip for which the planner chooses n > 1 clips, and for every outcome
\* of the draws, the plan returned has
\* |sum(duration_i) - (n-1)*overlap - audio_duration| <= 0.02.
C11_DurationConservation ==
  (ppc = "done" /\ planner.num_clips > 1
     /\ planner.audio_duration > planner.overlap) =>
    Abs(EffectiveTotal(planner, durations) - planner.audio_duration)
      <= 2 * ErrorThreshold

\* ---- C12
\* C12: every clip duration of every plan that plan_clips returns lies in
\* [min_clip, max_clip], for the single clip and after sampling, soft
\* budgeting, absorption and the residual correction.
C12_BoundsRespected ==
  ppc = "done" =>
    \A i \in 1..Len(plans) :
      /\ plans[i].duration >= planner.min_clip
      /\ plans[i].duration <= planner.max_clip

\* C12 witness: a plan of several clips was returned whose residual
\* correction ran into the clamp of the last clip.
C12_Witness ==
  /\ ppc = "done"
  /\ Len(plans) > 1
  /\ plans[Len(plans)].duration = planner.max_clip
  /\ EffectiveTotal(planner, durations) < planner.audio_duration - ErrorThreshold

\* ---- C13
\* C13: the planner fails only at construction and only for min_clip >
\* max_clip; for every other input plan_clips returns, with a plan that is
\* not empty.
C13_FailsOnlyAtConstruction ==
  /\ ppc = "init_raised" => planner.min_clip > planner.max_clip
  /\ ppc # "plan_raised"
  /\ ppc = "done" => Len(plans) >= 1

\* ---- C14
\* C14: when the estimated clip count is 1 the plan is one clip with index
\* 0, start_time 0, duration audio_duration clamped into
\* [min_clip, max_clip], and end_time equal to that duration.
C14_SingleClipClamp ==
  (ppc = "done" /\ planner.num_clips = 1) =>
    /\ Len(plans) = 1
    /\ plans[1].index = 0
    /\ plans[1].start_time = 0
    /\ plans[1].duration >= planner.min_clip
    /\ plans[1].duration <= planner.max_clip
    /\ (planner.audio_duration >= planner.min_clip
          /\ planner.audio_duration <= planner.max_clip) =>
         plans[1].duration = planner.audio_duration
    /\ planner.audio_duration < planner.min_clip =>
         plans[1].duration = planner.min_clip
    /\ planner.audio_duration > planner.max_clip =>
         plans[1].duration = planner.max_clip
    /\ plans[1].end_time = plans[1].duration

\* C14 witness: audio_duration 1.0 with min 2.0 and max 5.0 gave one clip
\* of 2.0.
C14_Witness ==
  /\ ppc = "done"
  /\ planner.num_clips = 1
  /\ planner.audio_duration = 10 * Resolution
  /\ planner.min_clip = min_clip_duration * Resolution
  /\ plans[1].duration = min_clip_duration * Resolution

\* ---- C15
\* C15: in sequential mode with anti_consecutive enabled and more than one
\* file in the pool, select_next never returns the file it was told to
\* avoid; so when each call passes the file returned before, no two
\* consecutive calls return the same file.
C15_SequentialNeverReturnsAvoided ==
  (spc = "selected" /\ config.selection_mode = "sequential"
     /\ config.anti_consecutive /\ Len(selector.media_files) > 1) =>
    ~selection.avoided

\* C15 witness: the first call was told to avoid the first file of a pool
\* of several and returned the second.
C15_Witness ==
  /\ spc = "selected"
  /\ config.selection_mode = "sequential"
  /\ config.anti_consecutive
  /\ Len(selector.media_files) > 1
  /\ SumSeq(returned) = 1
  /\ selection.file = 2
  /\ selector.current_index = 2 % Len(selector.media_files)

\* ---- C16
\* C16: with a pool of exactly one file, select_next returns that file and
\* does not raise, also when told to avoid it, in both modes.
C16_SingleFileDegradation ==
  (Len(selector.media_files) = 1 /\ spc \in {"selected", "raised"}) =>
    /\ spc = "selected"
    /\ selection.file = 1

\* C16 witness: in random mode with anti_consecutive the only file was
\* returned to a call told to avoid it.
C16_Witness ==
  /\ spc = "selected"
  /\ Len(selector.media_files) = 1
  /\ config.selection_mode = "random"
  /\ config.anti_consecutive
  /\ selection.file = 1
  /\ selection.avoided

\* ---- C17
\* C17: the selection returned the k-th time a file is chosen since
\* construction or the last reset has a variation if and only if k > 1.
C17_VariationIffReused ==
  spc = "selected" =>
    (selection.variation <=> returned[selection.file] > 1)

\* C17 witness: the second call returned the file of the first, with a
\* variation.
C17_Witness ==
  /\ spc = "selected"
  /\ selection.variation
  /\ returned[selection.file] = 2
  /\ SumSeq(returned) = 2

\* ---- C18
\* C18: the reuse_count of every file equals the number of times
\* select_next returned it since construction or the last reset, the counts
\* add up to the number of calls that returned, and get_statistics reports
\* exactly the files with a count above zero.
C18_ReuseCountCountsReturns ==
  spc \in {"constructed", "selected", "reset", "raised"} =>
    /\ \A f \in 1..Len(selector.media_files) :
         selector.reuse_count[f] = returned[f]
    /\ SumSeq(selector.reuse_count) = SumSeq(returned)
    /\ DOMAIN GetStatistics(selector) =
         { f \in 1..Len(selector.media_files) : returned[f] > 0 }
    /\ \A f \in DOMAIN GetStatistics(selector) :
         GetStatistics(selector)[f] = returned[f]

\* C18 witness: one file was returned twice and another never.
C18_Witness ==
  /\ spc = "selected"
  /\ \E f, g \in 1..Len(selector.media_files) :
       /\ selector.reuse_count[f] = 2
       /\ selector.reuse_count[g] = 0

\* ---- C19
\* C19: constructing a MediaSelector over a folder that gives an empty pool
\* raises, so that no selector with an empty pool exists.
C19_EmptyPoolFailsAtConstruction ==
  selector.built => selector.media_files # << >>

\* ---- C20
\* C20: with a pool that is not empty every select_next call returns a
\* selection of a file of the pool and does not raise, for every mode,
\* every anti_consecutive setting, every duration asked for and every
\* avoid_file.
C20_SelectNextSucceeds ==
  /\ spc = "raised" => selector.media_files = << >>
  /\ spc = "selected" =>
       /\ selection.file \in 1..Len(selector.media_files)
       /\ selector.last_selected = selection.file
       /\ selection.has_segment =>
            /\ selection.start_time >= 0
            /\ selection.start_time <= selection.end_time

\* C20 witness: a video was returned for a duration longer than the video.
C20_Witness ==
  /\ spc = "selected"
  /\ selection.has_segment
  /\ selection.duration > default_video_duration
  /\ selection.end_time = default_video_duration

\* ---- C21
\* C21: every returned JobResult has an empty error_message when its status
\* is COMPLETED and a non-empty one when its status is FAILED or CANCELLED.
C21_ErrorMessageMatchesStatus ==
  pc = "returned" =>
    /\ result.status = "COMPLETED" => result.error_message = ""
    /\ result.status \in {"FAILED", "CANCELLED"} => result.error_message # ""

\* ---- C22
\* The status that follows st in the order PENDING, VALIDATING, PLANNING,
\* PROCESSING, FINALIZING, COMPLETED.
NextInOrder(st) ==
  CASE st = "PENDING" -> "VALIDATING"
    [] st = "VALIDATING" -> "PLANNING"
    [] st = "PLANNING" -> "PROCESSING"
    [] st = "PROCESSING" -> "FINALIZING"
    [] st = "FINALIZING" -> "COMPLETED"
    [] OTHER -> "none"

\* C22: within one job every change of the status is a step to the next
\* status of the order PENDING, VALIDATING, PLANNING, PROCESSING, FINALIZING,
\* COMPLETED, or an early exit from a non-terminal status to FAILED, or the
\* exit from VALIDATING to CANCELLED; so no status is skipped, repeated or
\* revisited and nothing follows an exit.
C22_StatusOrder ==
  [][ result'.status # result.status =>
        \/ result'.status = NextInOrder(result.status)
        \/ /\ result'.status = "FAILED"
           /\ result.status \notin Terminal
        \/ /\ result'.status = "CANCELLED"
           /\ result.status = "VALIDATING" ]_vars

\* ---- C23
\* The indexes of the clips attempted so far whose encode succeeded.
EncodedClips == { i \in 0..(Len(clip_log) - 1) : clip_log[i + 1] = "ok" }

\* C23: the list of clip files handed to concatenation holds exactly the
\* clips whose encode succeeded, in strictly ascending clip index, and never
\* a clip whose encode failed or whose selection raised; clips are attempted
\* one after the other in index order, each outcome known before the next
\* clip starts, and every clip is attempted before concatenation; the temp
\* file names of two different clips differ.
C23_ConcatInputIsEncodedClipsInOrder ==
  /\ Range(clip_files) = EncodedClips
  /\ \A a, b \in 1..Len(clip_files) : a < b => clip_files[a] < clip_files[b]
  /\ Len(clip_log) = clip_i
  /\ Len(clip_calls) = clip_i
  /\ \A k \in 1..Len(clip_calls) :
       /\ clip_calls[k].clip_index = k - 1
       /\ clip_log[k] \in {"ok", "encode_failed"} =>
            clip_calls[k].temp_file = TempFile(k - 1)
  /\ \A a, b \in 1..Len(clip_calls) :
       (a # b /\ clip_log[a] # "raised" /\ clip_log[b] # "raised") =>
         clip_calls[a].temp_file # clip_calls[b].temp_file
  /\ calls["concatenate"] >= 1 =>
       /\ clip_i = clip_plans
       /\ clip_files # << >>

\* C23 witness: concatenation was called for a job of three clips whose
\* second encode failed; it got the first and the third clip.
C23_Witness ==
  /\ calls["concatenate"] = 1
  /\ clip_log = << "ok", "encode_failed", "ok" >>
  /\ clip_files = << 0, 2 >>
  /\ clip_calls[1].temp_file # clip_calls[3].temp_file

\* ---- C24
\* C24: a job constructs at most one MediaSelector and runs the planner at
\* most once, and has done both exactly once when it processes clips; it
\* calls select_next once for every clip plan it has come to, in plan order,
\* each time with the duration of that plan and with avoid_file the asset the
\* previous call returned when anti_consecutive is set (None for the first
\* call and when it is not set), whatever the outcome of the earlier encodes;
\* when the loop is over it has called select_next once per clip plan.
C24_OnePlanOneSelectorOneSelectionPerClip ==
  /\ calls["planner"] <= 1
  /\ calls["selector"] <= 1
  /\ result.status \in {"PROCESSING", "FINALIZING", "COMPLETED"} =>
       /\ calls["planner"] = 1
       /\ calls["selector"] = 1
       /\ Len(plans) = clip_plans
  /\ calls["select_next"] = Len(clip_calls)
  /\ Len(clip_calls) = clip_i
  /\ Len(clip_calls) <= Len(plans)
  /\ \A k \in 1..Len(clip_calls) :
       /\ clip_calls[k].clip_index = plans[k].index
       /\ clip_calls[k].duration = plans[k].duration
       /\ clip_calls[k].avoid_file =
            IF config.anti_consecutive /\ k > 1
              THEN clip_calls[k - 1].file
              ELSE 0
  /\ (result.status \in {"FINALIZING", "COMPLETED"}
        \/ result.error_message = MsgNoClips) =>
       calls["select_next"] = clip_plans

\* C24 witness: with anti_consecutive set, the encode of the first clip
\* failed and the second select_next call got the second plan's duration,
\* which is not the first plan's, and the first clip's asset to avoid.
C24_Witness ==
  /\ config.anti_consecutive
  /\ Len(clip_calls) >= 2
  /\ clip_log[1] = "encode_failed"
  /\ clip_calls[1].file # 0
  /\ clip_calls[2].avoid_file = clip_calls[1].file
  /\ clip_calls[2].duration = plans[2].duration
  /\ plans[2].duration # plans[1].duration

\* ---- C25
\* C25: a timeout of a transcoder subprocess never leaves the call as an
\* exception and counts as the failure of its phase: after a probe timeout
\* the job has returned FAILED for want of a duration; after a
\* concatenation timeout it has returned FAILED for the concatenation; a
\* clip whose encode timed out is logged as failed and is not among the clip
\* files, and the loop goes on to the next clip plan (only an exception of
\* the progress callback ends it early).
C25_TimeoutIsPhaseFailure ==
  /\ pc # "raised"
  /\ exc.raised => exc.class # "TimeoutExpired"
  /\ ffmpeg.probe_run = "timeout" =>
       /\ pc = "returned"
       /\ result.status = "FAILED"
       /\ result.error_message = MsgNoDuration
  /\ ffmpeg.concat_run = "timeout" =>
       /\ pc = "returned"
       /\ result.status = "FAILED"
       /\ result.error_message = MsgConcatFailed
  /\ \A k \in 1..Len(clip_calls) :
       clip_calls[k].run = "timeout" =>
         /\ clip_log[k] = "encode_failed"
         /\ (k - 1) \notin Range(clip_files)
         /\ (k < clip_plans /\ Len(clip_calls) = k) =>
              \/ pc = "clip"
              \/ exc.raised /\ exc.class = "RuntimeError"

\* C25 witness: the encode of the first clip timed out, the second clip was
\* encoded, and the job returned COMPLETED.
C25_Witness ==
  /\ pc = "returned"
  /\ result.status = "COMPLETED"
  /\ Len(clip_calls) >= 2
  /\ clip_calls[1].run = "timeout"
  /\ clip_log[2] = "ok"
  /\ clip_files[1] = 1

\* ---- C26
\* C26: a returned plan has max(1, floor((audio_duration - overlap) /
\* (avg - overlap))) clips when avg = (min_clip + max_clip) / 2 is above the
\* overlap, and max(1, floor(audio_duration / min_clip)) clips when it is
\* not; for audio 12.0 s, min 2.0 s, max 5.0 s and overlap 0.5 s that is 3.
\* The quotients are written with both sides doubled; \div rounds down.
C26_ClipCount ==
  ppc = "done" =>
    /\ Len(plans) = planner.num_clips
    /\ IF planner.min_clip + planner.max_clip > 2 * planner.overlap
         THEN Len(plans) =
                Max(1, (2 * (planner.audio_duration - planner.overlap))
                         \div (planner.min_clip + planner.max_clip
                                 - 2 * planner.overlap))
         ELSE Len(plans) =
                Max(1, planner.audio_duration \div planner.min_clip)
    /\ (/\ planner.audio_duration = 120 * Resolution
        /\ planner.min_clip = 20 * Resolution
        /\ planner.max_clip = 50 * Resolution
        /\ planner.overlap = 5 * Resolution) => Len(plans) = 3

\* C26 witness: the plan for audio 12.0 s under the default settings was
\* returned with three clips.
C26_Witness ==
  /\ ppc = "done"
  /\ planner.audio_duration = 120 * Resolution
  /\ planner.min_clip = min_clip_duration * Resolution
  /\ planner.max_clip = max_clip_duration * Resolution
  /\ planner.overlap = overlap_duration * Resolution
  /\ Len(plans) = 3

\* ---- C27
\* C27: in every returned plan the clip at position i has index i, the first
\* clip starts at 0, each later clip starts at the start of the clip before
\* it plus that clip's duration minus the overlap, every clip ends at its
\* start plus its duration, and the last clip ends at the sum of the
\* durations minus (n - 1) overlaps.
C27_Timeline ==
  ppc = "done" =>
    /\ plans # << >>
    /\ plans[1].start_time = 0
    /\ \A i \in 1..Len(plans) :
         /\ plans[i].index = i - 1
         /\ plans[i].end_time = plans[i].start_time + plans[i].duration
    /\ \A i \in 1..(Len(plans) - 1) :
         plans[i + 1].start_time =
           plans[i].start_time + plans[i].duration - planner.overlap
    /\ plans[Len(plans)].end_time =
         SumSeq([i \in 1..Len(plans) |-> plans[i].duration])
           - (Len(plans) - 1) * planner.overlap

\* C27 witness: a plan of three clips whose durations differ was returned.
C27_Witness ==
  /\ ppc = "done"
  /\ Len(plans) = 3
  /\ planner.overlap > 0
  /\ plans[1].duration # plans[2].duration
  /\ plans[3].start_time =
       plans[1].duration + plans[2].duration - 2 * planner.overlap

\* C28: in random mode with anti_consecutive on and more than one file in
\* the pool, a draw equal to avoid_file is drawn again, for at most
\* max_attempts retries, after which one more draw is taken whatever it is:
\* the loop never makes more than max_attempts + 1 draws, the first draw
\* that differs from avoid_file is the file returned, and avoid_file is
\* returned only when every one of the max_attempts retry draws equalled it.
C28_RandomRetriesThenAccepts ==
  LET n == Len(selector.media_files)
      drawing == spc \in {"loop", "chosen"}
      returned_now == spc = "selected" /\ retry.draws > 0
  IN  /\ retry.attempts <= max_attempts
      /\ retry.draws <= max_attempts + 1
      /\ (config.anti_consecutive /\ n > 1 /\ (drawing \/ returned_now)) =>
           /\ spc = "loop" =>
                /\ retry.first_other = 0
                /\ retry.draws = retry.attempts
                /\ retry.selected_file = 0
           /\ spc # "loop" =>
                /\ retry.selected_file \in 1..n
                /\ retry.first_other # 0 =>
                     /\ retry.draws = retry.first_other
                     /\ retry.selected_file # retry.avoid_file
                /\ retry.selected_file = retry.avoid_file =>
                     /\ retry.first_other = 0
                     /\ retry.attempts = max_attempts
                     /\ retry.draws = max_attempts + 1
                /\ retry.first_other = 0 =>
                     /\ retry.avoid_file \in 1..n
                     /\ retry.attempts = max_attempts
           /\ returned_now =>
                /\ selection.file = retry.selected_file
                /\ selection.avoided = (retry.selected_file = retry.avoid_file)
                /\ selection.file \in RandomChoices(n, config.anti_consecutive,
                                                     retry.avoid_file)

\* C28 witness: select_next returned the file to avoid after max_attempts
\* retry draws and the fallback draw all gave it.
C28_Witness ==
  /\ spc = "selected"
  /\ config.anti_consecutive
  /\ Len(selector.media_files) > 1
  /\ retry.attempts = max_attempts
  /\ retry.draws = max_attempts + 1
  /\ selection.file = retry.avoid_file
  /\ selection.avoided

\* C29: on a second or later use of a video whose unused duration (total
\* minus the lengths of the used intervals) is at least the needed duration,
\* the start is the beginning of the first gap of the used intervals sorted
\* by start that is at least as long as needed, the gap from 0 and the gap
\* to the end of the video included; in every other case the start is a
\* draw from [0, max(0, total - needed)].
C29_FirstFitSegment ==
  (spc = "selected" /\ selection.has_segment
     /\ Len(used_segments[selection.file]) >= 2) =>
    LET used == used_segments[selection.file]
        prior == SubSeq(used, 1, Len(used) - 1)
        total == default_video_duration
        needed == selection.duration
        sorted == SortSegments(prior)
        m == Len(sorted)
        unused == total - UsedLength(prior)
        GapBegin(k) == IF k = 0 THEN 0 ELSE sorted[k][2]
        GapEnd(k) == IF k = m THEN total ELSE sorted[k + 1][1]
        fitting == { k \in 0..m : GapEnd(k) - GapBegin(k) >= needed }
        first == CHOOSE k \in fitting : \A j \in fitting : k <= j
    IN  IF unused >= needed /\ fitting # {}
          THEN selection.start_time = GapBegin(first)
          ELSE selection.start_time \in 0..Max(0, total - needed)

\* C29 witness: a later use of a video started at the end of a used
\* interval, the first gap long enough.
C29_Witness ==
  /\ spc = "selected"
  /\ selection.has_segment
  /\ Len(used_segments[selection.file]) >= 2
  /\ LET used == used_segments[selection.file]
         prior == SubSeq(used, 1, Len(used) - 1)
     IN  /\ default_video_duration - UsedLength(prior) >= selection.duration
         /\ selection.start_time > 0
         /\ \E i \in 1..Len(prior) : prior[i][2] = selection.start_time
         /\ \A i \in 1..Len(prior) :
              \/ prior[i][2] <= selection.start_time
              \/ prior[i][1] >= selection.end_time

\* C29 second witness: sufficient unused duration but no gap long enough,
\* and a drawn start that overlaps a used interval.
C29_FragmentedWitness ==
  /\ spc = "selected"
  /\ selection.has_segment
  /\ Len(used_segments[selection.file]) = 2
  /\ LET used == used_segments[selection.file]
         prior == SubSeq(used, 1, Len(used) - 1)
     IN  /\ default_video_duration - UsedLength(prior) >= selection.duration
         /\ prior[1][1] < selection.duration
         /\ default_video_duration - prior[1][2] < selection.duration

\* C30: a select_next that returns a video appends exactly the interval
\* (start, min(start + needed, total)) to that file's used_segments and keeps
\* the intervals recorded before in place; the used_segments and reuse_count
\* of every other file, and the used_segments of a returned image, are left
\* as they were.
C30_UsedSegmentsAppendOnly ==
  [][ spc' = "selected" =>
        LET f == selection'.file
            n == Len(selector.media_files)
            start == selection'.start_time
            needed == selection'.duration
            total == default_video_duration
            end == IF start + needed < total THEN start + needed ELSE total
        IN  /\ f \in 1..n
            /\ selector'.media_files = selector.media_files
            /\ DOMAIN used_segments' = 1..n
            /\ selection'.has_segment = (selector.media_files[f] = "video")
            /\ \A g \in 1..n :
                 IF g = f /\ selection'.has_segment
                   THEN used_segments'[g] =
                          Append(used_segments[g], << start, end >>)
                   ELSE used_segments'[g] = used_segments[g]
            /\ \A g \in (1..n) \ {f} :
                 selector'.reuse_count[g] = selector.reuse_count[g] ]_vars

\* C30 witness: a video used before is returned for a duration that runs
\* past its end, while another video has a used segment of its own.
C30_Witness ==
  /\ spc = "selected"
  /\ selection.has_segment
  /\ LET used == used_segments[selection.file]
     IN  /\ Len(used) >= 2
         /\ selection.start_time + selection.duration > default_video_duration
         /\ used[Len(used)] = << selection.start_time, default_video_duration >>
  /\ \E g \in 1..Len(selector.media_files) :
       g # selection.file /\ used_segments[g] # << >>

\* C31: reset() sets the cursor to 0, last_selected to None, every file's
\* reuse_count to 0 and used_segments to empty and keeps the files of the
\* pool; in sequential mode the selector is then in the state of a freshly
\* constructed one over the same pool, and its next selection is the one a
\* fresh selector makes, with no variation.
C31_ResetRestoresFreshState ==
  [][ LET n == Len(selector.media_files)
          fresh == NewSelector(selector.media_files)
          sequential == config.selection_mode = "sequential"
      IN  /\ spc' = "reset" =>
               /\ selector'.current_index = 0
               /\ selector'.last_selected = 0
               /\ selector'.reuse_count = [i \in 1..n |-> 0]
               /\ used_segments' = [i \in 1..n |-> << >>]
               /\ selector'.media_files \in Shuffles(selector.media_files)
               /\ sequential =>
                    /\ selector' = fresh
                    /\ GetStatistics(selector') = GetStatistics(fresh)
          /\ (spc = "reset" /\ spc' = "selected" /\ sequential) =>
               /\ selector' \in
                    { sel \in UNION { SelectNext(fresh, "sequential",
                                                 config.anti_consecutive, a) :
                                        a \in 0..(n + 1) } : TRUE }
               /\ ~selection'.variation
               /\ selection'.has_segment =>
                    selection'.start_time \in
                      FirstUseStarts(default_video_duration,
                                     selection'.duration) ]_vars

\* C31 witness: a sequential selector of several files is reset after its
\* cursor moved and a file was returned more than once.
C31_Witness ==
  /\ spc = "reset"
  /\ config.selection_mode = "sequential"
  /\ Len(selector.media_files) >= 2
  /\ selection # NoSelection
  /\ selection.variation
  /\ selector = NewSelector(selector.media_files)

\* C32: in a plan of several clips whose last duration lies strictly between
\* min_clip and max_clip, the effective total, sum of the durations minus
\* (n - 1) overlaps, is within 0.01 s of the audio duration; a larger
\* discrepancy has the last clip exactly at min_clip or at max_clip.
C32_DiscrepancyOnlyWhenLastClipClamped ==
  (ppc \in {"timeline", "done"} /\ Len(durations) > 1) =>
    LET last == durations[Len(durations)]
        discrepancy ==
          Abs(planner.audio_duration - EffectiveTotal(planner, durations))
    IN  /\ (planner.min_clip < last /\ last < planner.max_clip) =>
             discrepancy <= ErrorThreshold
        /\ discrepancy > ErrorThreshold =>
             last \in {planner.min_clip, planner.max_clip}

\* C32 witness: a finished plan of several clips in which an earlier clip
\* sits at max_clip, the last clip lies strictly inside the bounds, and the
\* effective total is within 0.01 s of the audio duration.
C32_Witness ==
  /\ ppc = "done"
  /\ Len(durations) > 1
  /\ planner.min_clip < durations[Len(durations)]
  /\ durations[Len(durations)] < planner.max_clip
  /\ \E i \in 1..(Len(durations) - 1) : durations[i] = planner.max_clip
  /\ Abs(planner.audio_duration - EffectiveTotal(planner, durations))
       <= ErrorThreshold

\* C32 second witness: a finished plan whose last clip is at max_clip and
\* whose effective total misses the audio duration by more than 0.01 s.
C32_ClampedWitness ==
  /\ ppc = "done"
  /\ Len(durations) > 1
  /\ durations[Len(durations)] = planner.max_clip
  /\ Abs(planner.audio_duration - EffectiveTotal(planner, durations))
       > ErrorThreshold

C34_GapSearchNeverOverlaps ==
  (spc = "selected" /\ selection.has_segment
     /\ Len(used_segments[selection.file]) >= 2) =>
    LET used == used_segments[selection.file]
        prior == SubSeq(used, 1, Len(used) - 1)
        total == default_video_duration
        needed == selection.duration
        sorted == SortSegments(prior)
        m == Len(sorted)
        GapBegin(k) == IF k = 0 THEN 0 ELSE sorted[k][2]
        GapEnd(k) == IF k = m THEN total ELSE sorted[k + 1][1]
        searched ==
          /\ total - UsedLength(prior) >= needed
          /\ \E k \in 0..m : GapEnd(k) - GapBegin(k) >= needed
    IN  searched =>
          \A i \in 1..Len(prior) :
            \/ prior[i][2] <= selection.start_time
            \/ selection.start_time + needed <= prior[i][1]

\* C35: in sequential mode the cursor of a constructed selector always
\* satisfies 0 <= current_index < pool size, and after each call it is the
\* position of the returned file plus one, modulo the pool size; with two
\* or more files, a call that passes the file returned before as avoid_file
\* returns the file at the cursor, so from construction on the files come
\* in round-robin order and the reuse_counts of two files never differ by
\* more than 1.
C35_SequentialCursor ==
  (config.selection_mode = "sequential" /\ selector.built) =>
    LET n == Len(selector.media_files)
        RoundRobin(sel) ==
          \E c \in 0..MaxSelects :
            \A i \in 1..n :
              sel.reuse_count[i] =
                c + (IF i <= sel.current_index THEN 1 ELSE 0)
        disciplined ==
          SelectNext(selector, "sequential", config.anti_consecutive,
                     selector.last_selected)
    IN  /\ 0 <= selector.current_index
        /\ selector.current_index < n
        /\ spc = "selected" =>
             selector.current_index = selection.file % n
        /\ (n >= 2 /\ RoundRobin(selector)
              /\ selector.last_selected \in {0, ((selector.current_index + n - 1) % n) + 1}) =>
             /\ RoundRobin(NewSelector(selector.media_files))
             /\ \A sel \in disciplined :
                  /\ sel.last_selected = selector.current_index + 1
                  /\ sel.current_index = sel.last_selected % n
                  /\ RoundRobin(sel)
             /\ \A i, j \in 1..n :
                  selector.reuse_count[i] - selector.reuse_count[j] <= 1

\* C36: after any sequence of select_next calls every video has as many
\* recorded intervals as its reuse_count and every image has none; the
\* selection returned has start_time and end_time exactly when its file is a
\* video, and they are the interval recorded last for that file; every
\* recorded interval has 0 <= start <= end <= total and the length
\* min(needed, total - start) for the duration that was asked for.
C36_SegmentsMatchReuseCounts ==
  spc \in {"constructed", "selected", "reset", "raised"} =>
    LET n == Len(selector.media_files)
        total == default_video_duration
    IN  /\ DOMAIN used_segments = 1..n
        /\ \A f \in 1..n :
             IF selector.media_files[f] = "video"
               THEN Len(used_segments[f]) = selector.reuse_count[f]
               ELSE used_segments[f] = << >>
        /\ \A f \in 1..n :
             \A i \in 1..Len(used_segments[f]) :
               LET start == used_segments[f][i][1]
                   end == used_segments[f][i][2]
               IN  /\ 0 <= start
                   /\ start <= end
                   /\ end <= total
                   /\ \E needed \in SelectDurations :
                        end - start = Min(needed, total - start)
        /\ spc = "selected" =>
             LET f == selection.file
                 used == used_segments[f]
             IN  /\ selection.has_segment = (selector.media_files[f] = "video")
                 /\ selection.has_segment =>
                      /\ used[Len(used)] =
                           << selection.start_time, selection.end_time >>
                      /\ selection.end_time - selection.start_time =
                           Min(selection.duration,
                               total - selection.start_time)

\* C36 witness: a pool with an image and a video, both returned, the video
\* twice, the second time for a duration longer than the video.
C36_Witness ==
  /\ spc = "selected"
  /\ selection.has_segment
  /\ selection.duration > default_video_duration
  /\ Len(used_segments[selection.file]) = 2
  /\ selector.reuse_count[selection.file] = 2
  /\ \E g \in 1..Len(selector.media_files) :
       /\ selector.media_files[g] = "image"
       /\ selector.reuse_count[g] = 1
       /\ used_segments[g] = << >>

\* C37: a job that found an asset shortage, with the shortage check enabled,
\* and went on past validation, because prompting is disabled or because
\* the user accepted the prompt, has exactly one entry in the warnings of
\* its result.
C37_OneWarningPerShortage ==
  (Shortage /\ config.warn_insufficient_media /\ WentOnToProbe) =>
    Len(result.warnings) = 1

\* C38: in a COMPLETED result clips_processed is the number of clips that
\* were encoded and passed to the concatenation.
C38_ClipsProcessedCountsEncodedClips ==
  result.status = "COMPLETED" =>
    /\ result.clips_processed = Len(clip_files)
    /\ result.clips_processed = Cardinality(EncodedClips)

\* C39: every result returned with a terminal status, COMPLETED, FAILED or
\* CANCELLED, has its end_time recorded, not before its start_time.
C39_EndTimeRecorded ==
  (pc = "returned" /\ result.status \in Terminal) =>
    /\ result.end_time # 0
    /\ result.end_time >= result.start_time

\* The asset folder was read and holds at least one file, none of them with
\* a supported image or video extension (engine.py 342-348 counts every
\* file; selector.py 121-129 keeps the supported ones).
OnlyUnsupportedFiles ==
  /\ env.read
  /\ env.audio_exists
  /\ env.folder_exists
  /\ env.files # << >>
  /\ \A i \in 1..Len(env.files) : env.files[i] = "other"

\* C40 as stated: a job whose asset folder holds at least one file but no
\* supported one passes validation and ends FAILED.
C40_AsStated ==
  (OnlyUnsupportedFiles /\ pc = "returned") =>
    /\ validation_result.valid
    /\ result.status = "FAILED"

\* C40: a job whose asset folder holds at least one file but no supported
\* one is not rejected for an empty folder; when validation lets it go on
\* (no shortage, prompting or the shortage check disabled, or the prompt
\* accepted) it goes on to the probe, every selection of the clip loop
\* raises inside _process_clip without ending the loop, and the job ends
\* FAILED; on a shortage with prompting enabled it ends CANCELLED when the
\* user declines and FAILED when no callback was given.  In every case no
\* clip is encoded, concatenation is never invoked, the job never ends
\* COMPLETED and no exception reaches the caller.
C40_UnsupportedFilesOnly ==
  OnlyUnsupportedFiles =>
    LET blocked == /\ Shortage
                   /\ config.warn_insufficient_media
                   /\ config.prompt_on_shortage
    IN  /\ result.error_message # MsgNoMediaFiles
        /\ validation_result.valid = ~blocked
        /\ (~blocked \/ confirm_answer = "yes") => WentOnToProbe
        /\ calls["encode_image"] = 0
        /\ calls["encode_video"] = 0
        /\ calls["concatenate"] = 0
        /\ clip_files = << >>
        /\ \A i \in 1..Len(clip_log) : clip_log[i] = "raised"
        /\ selector.built => selector.media_files = << >>
        /\ result.status # "COMPLETED"
        /\ pc # "raised"
        /\ pc = "returned" =>
             /\ result.status =
                  IF confirm_answer = "no" THEN "CANCELLED" ELSE "FAILED"
             /\ (blocked /\ ~config.has_confirm_callback) =>
                  /\ result.error_message = MsgShortagePrompt
                  /\ calls["probe"] = 0
             /\ (calls["select_next"] >= 1 /\ ~exc.raised) =>
                  /\ Len(clip_log) = clip_plans
                  /\ clip_plans >= 1
                  /\ result.error_message = MsgNoClips

\* C40 witness: a folder of unsupported files passed validation, every clip
\* of a plan of several clips had its selection raise, and the job returned
\* FAILED with no clip processed.
C40_Witness ==
  /\ OnlyUnsupportedFiles
  /\ validation_result.valid
  /\ pc = "returned"
  /\ clip_plans >= 2
  /\ Len(clip_log) = clip_plans
  /\ \A i \in 1..Len(clip_log) : clip_log[i] = "raised"
  /\ result.status = "FAILED"
  /\ result.error_message = MsgNoClips

====
